---- MODULE Spec2Model ----
(***************************************************************************)
(* A model of the dependency reconciliation of containerd/release-tool:    *)
(* the cache (cache.go), the remote revision resolver (lsRemote, getSha,   *)
(* resolveGitURL) and the reconciliation run of main (overrideDependencies,*)
(* renameDependencies, getUpdatedDeps, sort).                              *)
(*                                                                         *)
(* Text is modelled structurally:                                          *)
(*   - a reference, a commit or a hash is a sequence of characters;        *)
(*   - a dependency name or a URL is the sequence of its "/"-separated     *)
(*     segments, so "https://github.com/a/b" is                            *)
(*     <<"https:", "", "github.com", "a", "b">> and "" is <<"">>.          *)
(***************************************************************************)
EXTENDS Integers, Sequences, FiniteSets, TLC

VARIABLES
    pc,            \* position of the run
    previous,      \* dependency list parsed at the previous revision
    current,       \* dependency list parsed at the current revision
    overrideDeps,  \* release.OverrideDeps: name -> forced previous ref
    renameDeps,    \* release.RenameDeps: set of [Old, New]
    ignoreDeps,    \* release.IgnoreDeps
    cacheKind,     \* "nil" (nilCache) or "dir" (dirCache)
    cacheFiles,    \* files of the dirCache: key -> bytes
    gitRemote,     \* what "git ls-remote url rev rev^{}" answers, once asked
    httpRemote,    \* what GET https://name?go-get=1 answers, once asked
    pm,            \* getUpdatedDeps: map of previous
    cm,            \* getUpdatedDeps: map of deps
    todo,          \* getUpdatedDeps: names of cm still to iterate
    updated,       \* getUpdatedDeps: the list being built
    name,          \* getUpdatedDeps: loop variable
    d,             \* getUpdatedDeps: pm[name]
    c,             \* getUpdatedDeps: loop variable (copy of cm[name])
    ret,           \* what getUpdatedDeps returned: [deps, err, errName]
    updatedDeps,   \* main: the sorted list handed to rendering
    shaLog,        \* the last getSha call and what it did
    shaDone,       \* (gitURL, rev) -> commit getSha resolved and stored
    shaCalls,      \* (gitURL, rev) -> number of getSha calls
    remoteFor,     \* names for which resolveGitURL or getSha was called
    callLog,       \* the last resolution call of getUpdatedDeps
    compared,      \* name -> the two commits getUpdatedDeps compared
    urlLog,        \* the last resolveGitURL call and what it did
    arg,           \* the argument of the function a run calls on its own
    result         \* what that function returned

vars == <<pc, previous, current, overrideDeps, renameDeps, ignoreDeps,
          cacheKind, cacheFiles, gitRemote, httpRemote, pm, cm, todo,
          updated, name, d, c, ret, updatedDeps, shaLog, shaDone, shaCalls,
          remoteFor, callLog, compared, urlLog, arg, result>>

ShaVars == <<shaLog, shaDone, shaCalls, gitRemote>>

HTTPVars == <<httpRemote, urlLog>>

CallVars == <<arg, result>>

(***************************************************************************)
(* Bounds of the model and constants of the program.                       *)
(***************************************************************************)
MaxShaCalls == 3

ShaLen == 12

FullShaLen == 40

(***************************************************************************)
(* Text helpers.                                                           *)
(***************************************************************************)
EmptyStr == <<"">>

NoText == <<>>

Nil == [nil |-> TRUE]

Take(s, n) == IF Len(s) > n THEN SubSeq(s, 1, n) ELSE s

Front(s) == SubSeq(s, 1, Len(s) - 1)

Rep(ch, n) == [i \in 1..n |-> ch]

Get0(f, k) == IF k \in DOMAIN f THEN f[k] ELSE 0

Inc(f, k) == [x \in DOMAIN f \cup {k} |-> IF x = k THEN Get0(f, k) + 1 ELSE f[x]]

Put1(f, k, v) == [x \in DOMAIN f \cup {k} |-> IF x = k THEN v ELSE f[x]]

(***************************************************************************)
(* cache.go                                                                *)
(***************************************************************************)
CacheKinds == {"nil", "dir"}

\* os.WriteFile succeeds, fails and leaves the directory as it was, or fails
\* after it has created or truncated the file ("short"); a failing write is
\* followed through in the runs of the resolver and of the cache on their
\* own.
PutOutcomes ==
    IF pc \in {"sha", "scan", "resolve"} THEN {"ok", "fail"}
    ELSE IF pc \in {"cache", "info"} THEN {"ok", "fail", "short"}
    ELSE {"ok"}

\* A Get that never finds the file.
CacheGetMiss(kind, files, key) == [b |-> Nil, ok |-> FALSE]

\* Cache.Get: nilCache always misses; dirCache reads the file of the key.
CacheGet(kind, files, key) ==
    IF kind = "dir" /\ key \in DOMAIN files
    THEN [b |-> files[key], ok |-> TRUE]
    ELSE [b |-> Nil, ok |-> FALSE]

\* A Put that writes nothing.
CachePutNothing(kind, files, key, value, outcome) == files

\* Cache.Put: nilCache stores nothing; dirCache writes the file unless
\* os.WriteFile fails (the callers drop Put's error); a write that fails
\* half-way leaves an empty file.
CachePut(kind, files, key, value, outcome) ==
    IF kind = "dir" /\ outcome = "ok" THEN Put1(files, key, value)
    ELSE IF kind = "dir" /\ outcome = "short" THEN Put1(files, key, <<>>)
    ELSE files

(***************************************************************************)
(* nextGitURLTry, lsRemote, getSha                                         *)
(***************************************************************************)
HasHTTPSPrefix(url) == Len(url) >= 3 /\ url[1] = "https:" /\ url[2] = ""

\* A retry that stops one segment earlier: host/org is never produced.
nextGitURLTryStopsEarly(url) ==
    LET prefix == IF HasHTTPSPrefix(url) THEN <<"https:", "">> ELSE <<>>
        parts  == IF HasHTTPSPrefix(url) THEN SubSeq(url, 3, Len(url)) ELSE url
    IN  IF Len(parts) < 4 THEN EmptyStr ELSE prefix \o Front(parts)

nextGitURLTry(url) ==
    LET prefix == IF HasHTTPSPrefix(url) THEN <<"https:", "">> ELSE <<>>
        parts  == IF HasHTTPSPrefix(url) THEN SubSeq(url, 3, Len(url)) ELSE url
    IN  IF Len(parts) < 3 THEN EmptyStr ELSE prefix \o Front(parts)

\* lsRemote: answer[u] is what git ls-remote answers for u: [err, out].
\* Returns the output of the first URL that succeeds (nil when none does)
\* and the URLs queried, in order.
RECURSIVE lsRemote(_, _, _)
lsRemote(gitURL, answer, tried) ==
    IF gitURL = EmptyStr
    THEN [isNil |-> TRUE, b |-> <<>>, tried |-> tried]
    ELSE IF answer[gitURL].err
         THEN lsRemote(nextGitURLTry(gitURL), answer, Append(tried, gitURL))
         ELSE [isNil |-> FALSE, b |-> answer[gitURL].out,
               tried |-> Append(tried, gitURL)]

\* A line of the listing is the sequence of its fields; a listing line is
\* <<hash, ref>> with ref = [ref, suffix], suffix "^{}" for a dereferenced tag.
IsDeref(line) == line[2].suffix = "^{}"

\* The scan loop without the resolved flag: the last listing line wins.
RECURSIVE ScanShaLastWins(_, _, _, _)
ScanShaLastWins(lines, i, sha, resolved) ==
    IF i > Len(lines) THEN sha
    ELSE IF Len(lines[i]) # 2
         THEN ScanShaLastWins(lines, i + 1, sha, resolved)
         ELSE ScanShaLastWins(lines, i + 1, Take(lines[i][1], ShaLen), resolved)

\* The scan loop of getSha over lines[i..], from the state (sha, resolved).
RECURSIVE ScanSha(_, _, _, _)
ScanSha(lines, i, sha, resolved) ==
    IF i > Len(lines) THEN sha
    ELSE LET fields == lines[i] IN
         IF Len(fields) # 2 THEN ScanSha(lines, i + 1, sha, resolved)
         ELSE IF IsDeref(fields)
              THEN ScanSha(lines, i + 1, Take(fields[1], ShaLen), TRUE)
              ELSE IF resolved
                   THEN ScanSha(lines, i + 1, sha, resolved)
                   ELSE ScanSha(lines, i + 1, Take(fields[1], ShaLen), resolved)

ShaKey(gitURL, rev) == <<"git ls-remote", gitURL, rev>>

\* A getSha that fails when no listing call succeeded.
NoListingIsError(files, tried) ==
    [sha |-> NoText, err |-> "revision not found", files |-> files,
     tried |-> tried, hit |-> FALSE, listed |-> FALSE, lines |-> <<>>]

\* if b == nil { return "", nil }: not found, don't use sha.
NoListing(files, tried) ==
    [sha |-> NoText, err |-> "", files |-> files, tried |-> tried,
     hit |-> FALSE, listed |-> FALSE, lines |-> <<>>]

\* getSha: [sha, err, files, tried, hit, listed, lines]
getSha(gitURL, rev, kind, files, answer, putOutcome) ==
    LET key == ShaKey(gitURL, rev)
        got == CacheGet(kind, files, key)
    IN  IF got.ok
        THEN [sha |-> got.b, err |-> "", files |-> files, tried |-> <<>>,
              hit |-> TRUE, listed |-> FALSE, lines |-> <<>>]
        ELSE LET ls == lsRemote(gitURL, answer, <<>>) IN
             IF ls.isNil
             THEN NoListing(files, ls.tried)
             ELSE LET sha == ScanSha(ls.b, 1, NoText, FALSE) IN
                  IF sha = NoText
                  THEN [sha |-> NoText, err |-> "revision not found",
                        files |-> files, tried |-> ls.tried, hit |-> FALSE,
                        listed |-> TRUE, lines |-> ls.b]
                  ELSE [sha |-> sha, err |-> "",
                        files |-> CachePut(kind, files, key, sha, putOutcome),
                        tried |-> ls.tried, hit |-> FALSE, listed |-> TRUE,
                        lines |-> ls.b]

(***************************************************************************)
(* The remote side.  git ls-remote either fails or prints lines; a         *)
(* successful call with no matching ref prints nothing (an empty, non-nil  *)
(* output).  An answer, once given for a (url, rev), stays the same for    *)
(* the rest of the run.                                                    *)
(***************************************************************************)
MaxLines == 3

T1 == <<"v", "1", ".", "0", ".", "0">>

T2 == <<"v", "1", ".", "1", ".", "0">>

HashA == Rep("a", FullShaLen)

HashB == Rep("b", FullShaLen)

\* Differs from HashA only after the first ShaLen characters.
HashA2 == [i \in 1..FullShaLen |-> IF i <= ShaLen THEN "a" ELSE "c"]

HashShort == <<"c", "0", "f", "f", "e", "e", "1">>

LinePlain(h) == <<h, [ref |-> "refs/tags/v", suffix |-> ""]>>

LineDeref(h) == <<h, [ref |-> "refs/tags/v", suffix |-> "^{}"]>>

JunkLine == <<"warning:", "redirecting", "to">>

GitErr == [err |-> TRUE, out |-> <<>>]

GitOut(lines) == [err |-> FALSE, out |-> lines]

SeqsUpTo(S, n) == UNION {[1..k -> S] : k \in 0..n}

ScanLines ==
    {LinePlain(HashA), LinePlain(HashA2), LineDeref(HashB),
     LineDeref(HashShort), JunkLine}

\* Answers of git ls-remote when the scan of the listing is exercised.
ScanOutcomes == {GitErr} \cup {GitOut(l) : l \in SeqsUpTo(ScanLines, MaxLines)}

\* Answers of git ls-remote in the runs that make several calls.
RunOutcomes ==
    {GitErr, GitOut(<<>>),
     GitOut(<<LinePlain(HashA)>>), GitOut(<<LinePlain(HashB)>>)}

GitOutcomes == IF pc = "scan" THEN ScanOutcomes ELSE RunOutcomes

\* The answers lsRemote can get from gitURL on, each for the URLs it queries:
\* what the remote already answered it answers again, and a failure leads to
\* the next URL.
RECURSIVE Answers(_, _)
Answers(gitURL, rev) ==
    IF gitURL = EmptyStr THEN {<<>>}
    ELSE LET outs == IF <<gitURL, rev>> \in DOMAIN gitRemote
                     THEN {gitRemote[<<gitURL, rev>>]}
                     ELSE GitOutcomes
         IN  UNION {IF o.err
                    THEN {Put1(a, gitURL, o) :
                            a \in Answers(nextGitURLTry(gitURL), rev)}
                    ELSE {Put1(<<>>, gitURL, o)} : o \in outs}

RECURSIVE Remember(_, _, _, _, _)
Remember(memo, tried, i, rev, answer) ==
    IF i > Len(tried) THEN memo
    ELSE Remember(Put1(memo, <<tried[i], rev>>, answer[tried[i]]),
                  tried, i + 1, rev, answer)

\* The bookkeeping of one getSha call with result r.
GetShaCall(gitURL, rev, r, answer, putOutcome) ==
    LET key == ShaKey(gitURL, rev) IN
    /\ cacheFiles' = r.files
    /\ gitRemote' = Remember(gitRemote, r.tried, 1, rev, answer)
    /\ shaCalls' = Inc(shaCalls, key)
    /\ shaLog' = [gitURL |-> gitURL, rev |-> rev, sha |-> r.sha,
                  err |-> r.err, tried |-> r.tried, hit |-> r.hit,
                  listed |-> r.listed, lines |-> r.lines,
                  repeat |-> key \in DOMAIN shaCalls,
                  stored |-> key \in DOMAIN shaDone,
                  storedSha |-> IF key \in DOMAIN shaDone
                                THEN shaDone[key] ELSE NoText]
    /\ shaDone' = IF /\ cacheKind = "dir" /\ putOutcome = "ok"
                     /\ ~r.hit /\ r.err = "" /\ r.sha # NoText
                  THEN Put1(shaDone, key, r.sha)
                  ELSE shaDone

(***************************************************************************)
(* getSha called on its own: the resolver harness.                         *)
(***************************************************************************)
U_ab == <<"https:", "", "github.com", "a", "b">>

U_pkg == <<"https:", "", "example.com", "pkg">>

ShaURLs == {U_ab, U_pkg}

ShaRevs == {T1, T2}

NoLog == [gitURL |-> EmptyStr, rev |-> NoText, sha |-> NoText, err |-> "",
          tried |-> <<>>, hit |-> FALSE, listed |-> FALSE, lines |-> <<>>,
          repeat |-> FALSE, stored |-> FALSE, storedSha |-> NoText]

NoCall == [fn |-> "", side |-> "", dep |-> EmptyStr, failed |-> FALSE]

NoURLLog == [name |-> EmptyStr, url |-> EmptyStr, err |-> "",
             requested |-> FALSE, hit |-> FALSE, before |-> <<>>, calls |-> 0]

IdleCall == arg = Nil /\ result = Nil

IdleRun ==
    /\ previous = <<>> /\ current = <<>>
    /\ overrideDeps = <<>> /\ renameDeps = {} /\ ignoreDeps = {}
    /\ pm = <<>> /\ cm = <<>> /\ todo = {} /\ updated = <<>>
    /\ name = EmptyStr /\ d = Nil /\ c = Nil
    /\ ret = Nil /\ updatedDeps = <<>>
    /\ remoteFor = {} /\ callLog = NoCall /\ compared = <<>>

InitResolver ==
    /\ cacheKind \in CacheKinds
    /\ cacheFiles = <<>>
    /\ gitRemote = <<>> /\ httpRemote = <<>> /\ urlLog = NoURLLog
    /\ shaLog = NoLog /\ shaDone = <<>> /\ shaCalls = <<>>

\* The resolver of a run that never uses it.
IdleResolver ==
    /\ cacheKind = "nil"
    /\ cacheFiles = <<>>
    /\ gitRemote = <<>> /\ httpRemote = <<>> /\ urlLog = NoURLLog
    /\ shaLog = NoLog /\ shaDone = <<>> /\ shaCalls = <<>>

RunVars == <<previous, current, overrideDeps, renameDeps, ignoreDeps, pm, cm,
             todo, updated, name, d, c, ret, updatedDeps, remoteFor, callLog,
             compared>>

TotalShaCalls == LET D == DOMAIN shaCalls IN
    IF D = {} THEN 0
    ELSE LET RECURSIVE Sum(_)
             Sum(S) == IF S = {} THEN 0
                       ELSE LET k == CHOOSE x \in S : TRUE
                            IN shaCalls[k] + Sum(S \ {k})
         IN Sum(D)

\* One call of getSha(gitURL, rev, cache).
CallGetSha ==
    /\ pc \in {"sha", "scan"}
    /\ TotalShaCalls < (IF pc = "scan" THEN 1 ELSE MaxShaCalls)
    /\ \E gitURL \in ShaURLs, rev \in ShaRevs, po \in PutOutcomes :
         \E answer \in Answers(gitURL, rev) :
            GetShaCall(gitURL, rev,
                       getSha(gitURL, rev, cacheKind, cacheFiles, answer, po),
                       answer, po)
    /\ UNCHANGED <<pc, cacheKind, HTTPVars, RunVars, CallVars>>

InitSha == pc = "sha" /\ IdleRun /\ IdleCall /\ InitResolver

InitScan == pc = "scan" /\ IdleRun /\ IdleCall /\ InitResolver

NextSha == CallGetSha

SpecSha == InitSha /\ [][NextSha]_vars

SpecScan == InitScan /\ [][NextSha]_vars

(***************************************************************************)
(* lsRemote called on its own, for URLs of every shape.                    *)
(***************************************************************************)
U_sub == <<"https:", "", "github.com", "a", "b", "v2">>

\* URLs with and without https://, from one segment to five, and "".
LsURLs ==
    {U_ab, U_pkg, U_sub, <<"https:", "", "example.com", "x", "y", "z", "w">>,
     <<"git:", "", "github.com", "a", "b">>, <<"github.com", "a", "b">>,
     <<"repo">>, EmptyStr}

InitLs ==
    /\ pc = "ls"
    /\ IdleRun /\ IdleResolver
    /\ arg \in [gitURL : LsURLs, rev : ShaRevs]
    /\ result = Nil

\* One call of lsRemote(key, gitURL, rev).
CallLsRemote ==
    /\ pc = "ls"
    /\ \E answer \in Answers(arg.gitURL, arg.rev) :
        LET r == lsRemote(arg.gitURL, answer, <<>>) IN
        /\ result' = r
        /\ gitRemote' = Remember(gitRemote, r.tried, 1, arg.rev, answer)
    /\ pc' = "lsDone"
    /\ UNCHANGED <<arg, cacheKind, cacheFiles, HTTPVars, shaLog, shaDone,
                   shaCalls, RunVars>>

SpecLs == InitLs /\ [][CallLsRemote]_vars

(***************************************************************************)
(* resolveGitURL: the go-get discovery request.  A response is             *)
(* [err, status, metas]; metas are the tags of the body, each              *)
(* [name, content] with content the sequence of its fields.                *)
(***************************************************************************)
GoGetKey(n) == <<"https://", n, "?go-get=1">>

\* A scan that takes the first go-import tag whatever its vcs.
RECURSIVE ScanMetasAnyVcs(_, _)
ScanMetasAnyVcs(metas, i) ==
    IF i > Len(metas) THEN [found |-> FALSE, resolved |-> EmptyStr]
    ELSE IF metas[i].name = "go-import" /\ Len(metas[i].content) = 3
         THEN [found |-> TRUE, resolved |-> metas[i].content[3]]
         ELSE ScanMetasAnyVcs(metas, i + 1)

\* The first tag named go-import whose content is "prefix git url".
RECURSIVE ScanMetas(_, _)
ScanMetas(metas, i) ==
    IF i > Len(metas) THEN [found |-> FALSE, resolved |-> EmptyStr]
    ELSE IF /\ metas[i].name = "go-import"
            /\ Len(metas[i].content) = 3
            /\ metas[i].content[2] = "git"
         THEN [found |-> TRUE, resolved |-> metas[i].content[3]]
         ELSE ScanMetas(metas, i + 1)

\* resolveGitURL: [url, err, files, requested]
resolveGitURL(n, kind, files, resp, putOutcome) ==
    LET u   == GoGetKey(n)
        got == CacheGet(kind, files, u)
    IN  IF got.ok
        THEN [url |-> got.b, err |-> "", files |-> files, requested |-> FALSE]
        ELSE IF resp.err
        THEN [url |-> EmptyStr, err |-> "transport error", files |-> files,
              requested |-> TRUE]
        ELSE IF resp.status >= 400
        THEN [url |-> EmptyStr, err |-> "unexpected status code",
              files |-> files, requested |-> TRUE]
        ELSE LET m == ScanMetas(resp.metas, 1) IN
             IF m.found
             THEN [url |-> m.resolved, err |-> "",
                   files |-> CachePut(kind, files, u, m.resolved, putOutcome),
                   requested |-> TRUE]
             ELSE [url |-> EmptyStr, err |-> "EOF",
                   files |-> files, requested |-> TRUE]

\* The bookkeeping of one resolveGitURL call with result r.
URLLogOf(n, r, files) ==
    [name |-> n, url |-> r.url, err |-> r.err, requested |-> r.requested,
     hit |-> ~r.requested, before |-> files, calls |-> urlLog.calls + 1]

HTTPErr == [err |-> TRUE, status |-> 0, metas |-> <<>>]

HTTPResp(status, metas) == [err |-> FALSE, status |-> status, metas |-> metas]

Meta(n, content) == [name |-> n, content |-> content]

HTTPOutcomes ==
    {HTTPErr, HTTPResp(404, <<>>), HTTPResp(200, <<Meta("viewport", <<"w">>)>>),
     HTTPResp(200, <<Meta("go-import", <<"example.com/pkg", "hg", U_ab>>),
                     Meta("go-import", <<"example.com/pkg", "git", U_pkg>>)>>)}

Responses(n) ==
    {r \in HTTPOutcomes : n \in DOMAIN httpRemote => r = httpRemote[n]}

(***************************************************************************)
(* resolveGitURL called on its own, several times in a run.                *)
(***************************************************************************)
MaxURLCalls == 3

ResolveNames == {<<"example.com", "pkg">>, <<"example.com", "old">>}

InitResolve ==
    /\ pc = "resolve" /\ IdleRun /\ IdleCall /\ InitResolver

\* One call of resolveGitURL(name, cache).
CallResolveGitURL ==
    /\ pc = "resolve"
    /\ urlLog.calls < MaxURLCalls
    /\ \E n \in ResolveNames, po \in PutOutcomes : \E resp \in Responses(n) :
        LET r == resolveGitURL(n, cacheKind, cacheFiles, resp, po) IN
        /\ cacheFiles' = r.files
        /\ httpRemote' = IF r.requested THEN Put1(httpRemote, n, resp)
                         ELSE httpRemote
        /\ urlLog' = URLLogOf(n, r, cacheFiles)
    /\ UNCHANGED <<pc, cacheKind, gitRemote, shaLog, shaDone, shaCalls,
                   RunVars, CallVars>>

SpecResolve == InitResolve /\ [][CallResolveGitURL]_vars

(***************************************************************************)
(* getCommitOrVersion, and the run that calls it on a token.               *)
(***************************************************************************)
MaxPieces == 7

Incompatible ==
    <<"+", "i", "n", "c", "o", "m", "p", "a", "t", "i", "b", "l", "e">>

\* strings.FieldsFunc(s, c == '-') from position i on: the spans of s
\* between dashes, empty spans left out.
RECURSIVE DashFields(_, _)
DashFields(s, i) ==
    LET rest == {k \in i..Len(s) : s[k] # "-"} IN
    IF rest = {} THEN <<>>
    ELSE LET start  == CHOOSE k \in rest : \A m \in rest : k <= m
             dashes == {k \in start..Len(s) : s[k] = "-"}
             end    == IF dashes = {} THEN Len(s) + 1
                       ELSE CHOOSE k \in dashes : \A m \in dashes : k <= m
         IN  <<SubSeq(s, start, end - 1)>> \o DashFields(s, end + 1)

\* strings.Index(s, sub): the offset of the first occurrence, -1 if none.
Index(s, sub) ==
    LET at == {i \in 1..(Len(s) - Len(sub) + 1) :
                    SubSeq(s, i, i + Len(sub) - 1) = sub}
    IN  IF at = {} THEN -1
        ELSE (CHOOSE i \in at : \A j \in at : i <= j) - 1

\* A token is given up only from five fields on.
TooManyFieldsFromFive(fieldsLen) == fieldsLen > 4

\* if fieldsLen > 3 { return "", false }
TooManyFields(fieldsLen) == fieldsLen > 3

\* A token taken as it stands.
getCommitOrVersionWhole(cov) == [ref |-> cov, isSha |-> FALSE]

\* getCommitOrVersion: [ref, isSha]
getCommitOrVersion(cov) ==
    LET cut(cov2, incpIdx, isSha) ==
            IF incpIdx > 0
            THEN [ref |-> SubSeq(cov2, 1, incpIdx), isSha |-> isSha]
            ELSE [ref |-> cov2, isSha |-> isSha]
        last(cov2, isSha) == cut(cov2, Index(cov2, Incompatible), isSha)
        split(dashFields, fieldsLen) ==
            IF TooManyFields(fieldsLen)
            THEN [ref |-> NoText, isSha |-> FALSE]
            ELSE last(IF fieldsLen = 3 THEN dashFields[3] ELSE cov,
                      fieldsLen = 3)
        fields(dashFields) == split(dashFields, Len(dashFields))
    IN  fields(DashFields(cov, 1))

\* The tokens of TestParseModuleCommit.
TestTokens ==
    {<<"v", "1", "6", ".", "2", ".", "1", "+", "i", "n", "c", "o", "m", "p",
       "a", "t", "i", "b", "l", "e">>,
     <<"v", "0", ".", "0", ".", "0", "-", "2", "0", "1", "7", "1", "2", "0",
       "4", "2", "0", "4", "7", "0", "9", "-", "5", "7", "7", "d", "e", "e",
       "2", "7", "f", "2", "0", "d">>,
     <<"v", "1", ".", "0", ".", "0">>,
     <<"v", "1", ".", "0", ".", "0", "-", "r", "c", "1">>,
     <<"v", "0", ".", "4", ".", "1", "5", "-", "0", ".", "2", "0", "1", "9",
       "0", "9", "1", "9", "0", "2", "5", "1", "2", "2", "-", "f", "c", "7",
       "0", "b", "d", "9", "a", "8", "6", "b", "5">>}

RECURSIVE Flatten(_)
Flatten(ps) == IF ps = <<>> THEN <<>> ELSE Head(ps) \o Flatten(Tail(ps))

\* Tokens put together from at most MaxPieces pieces: a character, a dash,
\* the +incompatible marker.
Tokens ==
    TestTokens \cup
    {Flatten(ps) : ps \in SeqsUpTo({<<"v">>, <<"-">>, Incompatible}, MaxPieces)}

\* What a run that calls one function on its argument leaves alone.
CallFrame == UNCHANGED <<arg, cacheKind, cacheFiles, HTTPVars, ShaVars, RunVars>>

\* One call of getCommitOrVersion(cov).
CallGetCommitOrVersion ==
    /\ pc = "version"
    /\ result' = getCommitOrVersion(arg)
    /\ pc' = "versionDone"
    /\ CallFrame

(***************************************************************************)
(* The dependency model (main.go) and the helpers that build it.           *)
(***************************************************************************)
N_ab == <<"github.com", "a", "b">>

N_pkg == <<"example.com", "pkg">>

N_old == <<"example.com", "old">>

\* The names of the model in the order of Go's string comparison.
NameOrder == <<N_old, N_pkg, N_ab>>

NameRank(n) == CHOOSE i \in 1..Len(NameOrder) : NameOrder[i] = n

\* A commit id as a pseudo-version carries it: the first ShaLen characters.
K1 == Take(HashA, ShaLen)

\* A derivation that keeps the whole path of the name.
getGitURLKeepsPath(n) ==
    IF Len(n) >= 2 /\ n[1] # ""
    THEN CASE n[1] = "github.com" ->
                IF Len(n) < 3 THEN EmptyStr ELSE <<"https:", "">> \o n
           [] n[1] = "k8s.io" ->
                <<"https:", "", "github.com", "kubernetes">> \o Tail(n)
           [] n[1] = "sigs.k8s.io" ->
                <<"https:", "", "github.com", "kubernetes-sigs">> \o Tail(n)
           [] OTHER -> EmptyStr
    ELSE EmptyStr

getGitURL(n) ==
    IF Len(n) >= 2 /\ n[1] # ""
    THEN LET rest == SubSeq(n, 2, Len(n))
             repo == IF Len(rest) >= 2 /\ rest[1] # "" THEN <<rest[1]>> ELSE rest
         IN  CASE n[1] = "github.com" ->
                    IF Len(n) < 3 THEN EmptyStr
                    ELSE <<"https:", "">> \o SubSeq(n, 1, 3)
               [] n[1] = "k8s.io" ->
                    <<"https:", "", "github.com", "kubernetes">> \o repo
               [] n[1] = "sigs.k8s.io" ->
                    <<"https:", "", "github.com", "kubernetes-sigs">> \o repo
               [] OTHER -> EmptyStr
    ELSE EmptyStr

formatDependency(n, commitOrVersion, isSha) ==
    [Name |-> n, Ref |-> commitOrVersion,
     Sha |-> IF isSha THEN commitOrVersion ELSE NoText,
     Previous |-> NoText, GitURL |-> getGitURL(n), New |-> FALSE]

RECURSIVE toDepMapFrom(_, _, _)
toDepMapFrom(deps, i, out) ==
    IF i > Len(deps) THEN out
    ELSE toDepMapFrom(deps, i + 1, Put1(out, deps[i].Name, deps[i]))

toDepMap(deps) == toDepMapFrom(deps, 1, <<>>)

\* overrideDependencies: deps[i].Previous = or.Previous when it is not "".
overrideDependencies(deps, overrides) ==
    IF DOMAIN overrides = {} THEN deps
    ELSE [i \in DOMAIN deps |->
            IF /\ deps[i].Name \in DOMAIN overrides
               /\ overrides[deps[i].Name].Previous # NoText
            THEN [deps[i] EXCEPT !.Previous = overrides[deps[i].Name].Previous]
            ELSE deps[i]]

\* Rules that rename nothing.
renameDependenciesNone(deps, renameMap) == deps

\* renameDependencies with renameMap: Old -> rule.
renameDependencies(deps, renameMap) ==
    [i \in DOMAIN deps |->
        IF deps[i].Name \in DOMAIN renameMap
        THEN [deps[i] EXCEPT !.Name = renameMap[deps[i].Name].New]
        ELSE deps[i]]

\* The maps the first loop of renameDependencies can build: when two rules
\* share Old, the rule iterated last wins.
RenameMaps(renames) ==
    {m \in [{r.Old : r \in renames} -> renames] : \A o \in DOMAIN m : m[o].Old = o}

\* A list left in the order of the loop.
SortNone(deps) == deps

\* sort.Slice by Name.
RECURSIVE SortByName(_)
SortByName(deps) ==
    IF deps = <<>> THEN <<>>
    ELSE LET i == CHOOSE j \in DOMAIN deps :
                    \A k \in DOMAIN deps :
                        NameRank(deps[j].Name) <= NameRank(deps[k].Name)
             rest == [k \in 1..(Len(deps) - 1) |->
                        IF k < i THEN deps[k] ELSE deps[k + 1]]
         IN  <<deps[i]>> \o SortByName(rest)

(***************************************************************************)
(* The reconciliation run of main: overrideDependencies(current),          *)
(* renameDependencies(previous), getUpdatedDeps, sort.Slice.               *)
(***************************************************************************)
ConfigVars == <<overrideDeps, renameDeps, ignoreDeps, cacheKind>>

LoopVars == <<pm, cm, name, d, c>>

Override ==
    /\ pc = "override"
    /\ current' = overrideDependencies(current, overrideDeps)
    /\ pc' = "rename"
    /\ UNCHANGED <<previous, ConfigVars, CallVars, cacheFiles, HTTPVars, ShaVars,
                   LoopVars, todo, updated, ret, updatedDeps, remoteFor,
                   callLog, compared>>

Rename ==
    /\ pc = "rename"
    /\ IF renameDeps = {}
       THEN previous' = previous
       ELSE \E m \in RenameMaps(renameDeps) :
                previous' = renameDependencies(previous, m)
    /\ pc' = "getUpdatedDeps"
    /\ UNCHANGED <<current, ConfigVars, CallVars, cacheFiles, HTTPVars, ShaVars,
                   LoopVars, todo, updated, ret, updatedDeps, remoteFor,
                   callLog, compared>>

\* getUpdatedDeps, up to the loop.
Enter ==
    /\ pc = "getUpdatedDeps"
    /\ pm' = toDepMap(previous)
    /\ cm' = toDepMap(current)
    /\ todo' = DOMAIN toDepMap(current)
    /\ updated' = <<>>
    /\ pc' = "loop"
    /\ UNCHANGED <<previous, current, ConfigVars, CallVars, cacheFiles, HTTPVars,
                   ShaVars, name, d, c, ret, updatedDeps, remoteFor, callLog,
                   compared>>

\* An ignore list that is never consulted.
IgnoresNothing(n, ignored) == FALSE

\* if _, ok := ignoreMap[name]; ok { continue }
IsIgnored(n, ignored) == n \in ignored

\* d, ok := pm[name]; !ok
IsNewDep(n, pmap) == n \notin DOMAIN pmap

\* A new dependency appended without the mark.
NewRecordUnmarked(dep) == dep

\* c.New = true
NewRecord(dep) == [dep EXCEPT !.New = TRUE]

\* A forced previous that is never looked at.
OverrideUnused(dep) == FALSE

\* if c.Previous != ""
HasOverride(dep) == dep.Previous # NoText

\* if c.Previous != c.Ref
OverrideUpdated(dep) == dep.Previous # dep.Ref

\* Every dependency taken as changed, whatever its refs.
RefAlwaysChanged(prev, cur) == TRUE

\* else if d.Ref != c.Ref
RefChanged(prev, cur) == prev.Ref # cur.Ref

LoopFrame ==
    UNCHANGED <<pc, previous, current, ConfigVars, CallVars, cacheFiles, HTTPVars,
                ShaVars, LoopVars, ret, updatedDeps, remoteFor, callLog,
                compared>>

\* An iteration for an ignored name.
LoopIgnored ==
    /\ pc = "loop"
    /\ \E n \in todo :
        /\ IsIgnored(n, ignoreDeps)
        /\ todo' = todo \ {n}
        /\ updated' = updated
    /\ LoopFrame

\* An iteration for a name that previous does not have.
LoopNew ==
    /\ pc = "loop"
    /\ \E n \in todo :
        /\ ~IsIgnored(n, ignoreDeps)
        /\ IsNewDep(n, pm)
        /\ todo' = todo \ {n}
        /\ updated' = Append(updated, NewRecord(cm[n]))
    /\ LoopFrame

\* An iteration for a name with a forced previous.
LoopOverride ==
    /\ pc = "loop"
    /\ \E n \in todo :
        /\ ~IsIgnored(n, ignoreDeps)
        /\ ~IsNewDep(n, pm)
        /\ HasOverride(cm[n])
        /\ todo' = todo \ {n}
        /\ updated' = IF OverrideUpdated(cm[n])
                      THEN Append(updated, cm[n]) ELSE updated
    /\ LoopFrame

\* An iteration for a name whose declared ref is the same on both sides.
LoopSame ==
    /\ pc = "loop"
    /\ \E n \in todo :
        /\ ~IsIgnored(n, ignoreDeps)
        /\ ~IsNewDep(n, pm)
        /\ ~HasOverride(cm[n])
        /\ ~RefChanged(pm[n], cm[n])
        /\ todo' = todo \ {n}
        /\ updated' = updated
    /\ LoopFrame

\* An iteration for a name whose declared ref differs: on to the commits.
LoopChanged ==
    /\ pc = "loop"
    /\ \E n \in todo :
        /\ ~IsIgnored(n, ignoreDeps)
        /\ ~IsNewDep(n, pm)
        /\ ~HasOverride(cm[n])
        /\ RefChanged(pm[n], cm[n])
        /\ todo' = todo \ {n}
        /\ name' = n /\ d' = pm[n] /\ c' = cm[n]
    /\ pc' = "prevURL"
    /\ UNCHANGED <<previous, current, ConfigVars, CallVars, cacheFiles, HTTPVars,
                   ShaVars, pm, cm, updated, ret, updatedDeps, remoteFor,
                   callLog, compared>>

\* An error return that hands back the list built so far.
ErrReturnPartial(upd, msg, n, cause) ==
    [failed |-> TRUE, isNil |-> upd = <<>>, deps |-> upd, msg |-> msg,
     errName |-> n, cause |-> cause]

\* return nil, fmt.Errorf("<msg> %s: %w", name, err)
ErrReturn(upd, msg, n, cause) ==
    [failed |-> TRUE, isNil |-> TRUE, deps |-> <<>>, msg |-> msg,
     errName |-> n, cause |-> cause]

\* return updated, nil
OkReturn(upd) ==
    [failed |-> FALSE, isNil |-> upd = <<>>, deps |-> upd, msg |-> "",
     errName |-> EmptyStr, cause |-> ""]

\* resolveGitURL for the side held in dep; on success url is stored in it.
GitURLStep(side, next) ==
    \E resp \in Responses(name), po \in PutOutcomes :
        LET r == resolveGitURL(name, cacheKind, cacheFiles, resp, po) IN
        /\ cacheFiles' = r.files
        /\ httpRemote' = IF r.requested THEN Put1(httpRemote, name, resp)
                         ELSE httpRemote
        /\ remoteFor' = remoteFor \cup {name}
        /\ urlLog' = URLLogOf(name, r, cacheFiles)
        /\ callLog' = [fn |-> "resolveGitURL", side |-> side, dep |-> name,
                       failed |-> r.err # ""]
        /\ IF r.err # ""
           THEN /\ ret' = ErrReturn(updated, "git url for", name, r.err)
                /\ pc' = "failed"
                /\ UNCHANGED <<d, c>>
           ELSE /\ ret' = ret
                /\ pc' = next
                /\ IF side = "prev"
                   THEN /\ d' = [d EXCEPT !.GitURL = r.url]
                        /\ c' = IF c.GitURL = EmptyStr
                                THEN [c EXCEPT !.GitURL = r.url] ELSE c
                   ELSE /\ c' = [c EXCEPT !.GitURL = r.url]
                        /\ d' = d

\* getSha for the side held in dep; on success the commit is stored in it.
ShaStep(side, dep, next) ==
    \E po \in PutOutcomes : \E answer \in Answers(dep.GitURL, dep.Ref) :
        LET r == getSha(dep.GitURL, dep.Ref, cacheKind, cacheFiles, answer, po)
        IN
        /\ GetShaCall(dep.GitURL, dep.Ref, r, answer, po)
        /\ remoteFor' = remoteFor \cup {name}
        /\ callLog' = [fn |-> "getSha", side |-> side, dep |-> name,
                       failed |-> r.err # ""]
        /\ IF r.err # ""
           THEN /\ ret' = ErrReturn(updated, "failed to get sha for", name, r.err)
                /\ pc' = "failed"
                /\ UNCHANGED <<d, c>>
           ELSE /\ ret' = ret
                /\ pc' = next
                /\ IF side = "prev"
                   THEN d' = [d EXCEPT !.Sha = r.sha] /\ c' = c
                   ELSE c' = [c EXCEPT !.Sha = r.sha] /\ d' = d

SkipStep(next) ==
    /\ pc' = next
    /\ UNCHANGED <<d, c, ret, cacheFiles, HTTPVars, ShaVars, remoteFor,
                   callLog>>

StepFrame ==
    UNCHANGED <<previous, current, ConfigVars, CallVars, pm, cm, name, todo, updated,
                updatedDeps, compared>>

\* A record that is taken to have its URL whatever its GitURL holds.
NeverNeedsGitURL(dep) == FALSE

\* if x.Sha == "" { if x.GitURL == "" { resolveGitURL ... } }
NeedsGitURL(dep) == dep.Sha = NoText /\ dep.GitURL = EmptyStr

\* if d.Sha == "" { if d.GitURL == "" { resolveGitURL ... } }
PrevGitURL ==
    /\ pc = "prevURL"
    /\ IF NeedsGitURL(d)
       THEN GitURLStep("prev", "prevSha") /\ UNCHANGED ShaVars
       ELSE SkipStep("prevSha")
    /\ StepFrame

\* if d.Sha == "" { ... getSha(d.GitURL, d.Ref, cache) }
PrevSha ==
    /\ pc = "prevSha"
    /\ IF d.Sha = NoText
       THEN ShaStep("prev", d, "curURL") /\ UNCHANGED HTTPVars
       ELSE SkipStep("curURL")
    /\ StepFrame

\* if c.Sha == "" { if c.GitURL == "" { resolveGitURL ... } }
CurGitURL ==
    /\ pc = "curURL"
    /\ IF NeedsGitURL(c)
       THEN GitURLStep("cur", "curSha") /\ UNCHANGED ShaVars
       ELSE SkipStep("curSha")
    /\ StepFrame

\* if c.Sha == "" { ... getSha(c.GitURL, c.Ref, cache) }
CurSha ==
    /\ pc = "curSha"
    /\ IF c.Sha = NoText
       THEN ShaStep("cur", c, "compare") /\ UNCHANGED HTTPVars
       ELSE SkipStep("compare")
    /\ StepFrame

\* A comparison that takes every pair of commits as different.
ShaAlwaysChanged(prev, cur) == TRUE

\* if d.Sha != c.Sha
ShaChanged(prev, cur) == prev.Sha # cur.Sha

\* The record appended without its previous ref.
UpdatedRecordNoPrevious(prev, cur) == cur

\* The record appended for an updated dependency: c with Previous = d.Ref.
UpdatedRecord(prev, cur) == [cur EXCEPT !.Previous = prev.Ref]

\* if d.Sha != c.Sha { c.Previous = d.Ref; updated = append(updated, c) }
Compare ==
    /\ pc = "compare"
    /\ updated' = IF ShaChanged(d, c)
                  THEN Append(updated, UpdatedRecord(d, c)) ELSE updated
    /\ compared' = Put1(compared, name, [prev |-> d.Sha, cur |-> c.Sha])
    /\ pc' = "loop"
    /\ UNCHANGED <<previous, current, ConfigVars, CallVars, cacheFiles, HTTPVars,
                   ShaVars, LoopVars, todo, ret, updatedDeps, remoteFor,
                   callLog>>

\* The loop is over: return updated, nil.
Return ==
    /\ pc = "loop"
    /\ todo = {}
    /\ ret' = OkReturn(updated)
    /\ pc' = "sort"
    /\ UNCHANGED <<previous, current, ConfigVars, CallVars, cacheFiles, HTTPVars,
                   ShaVars, LoopVars, todo, updated, updatedDeps, remoteFor,
                   callLog, compared>>

\* main: sort.Slice(updatedDeps, by Name).
Sort ==
    /\ pc = "sort"
    /\ updatedDeps' = SortByName(ret.deps)
    /\ pc' = "done"
    /\ UNCHANGED <<previous, current, ConfigVars, CallVars, cacheFiles, HTTPVars,
                   ShaVars, LoopVars, todo, updated, ret, remoteFor, callLog,
                   compared>>

(***************************************************************************)
(* The runs of the model: what the parsers returned for the two            *)
(* revisions and the rules of the release file.                            *)
(***************************************************************************)
Absent == [present |-> FALSE, ref |-> NoText, isSha |-> FALSE]

Declared(ref, isSha) == [present |-> TRUE, ref |-> ref, isSha |-> isSha]

\* What the two manifests may declare for each name of the model.
CurChoices(n) ==
    IF n = N_ab
    THEN {Absent, Declared(T1, FALSE), Declared(T2, FALSE), Declared(K1, TRUE)}
    ELSE IF n = N_pkg
    THEN {Absent, Declared(T1, FALSE), Declared(T2, FALSE)}
    ELSE {Absent}

PrevChoices(n) ==
    IF n \in {N_ab, N_pkg}
    THEN {Absent, Declared(T1, FALSE), Declared(K1, TRUE)}
    ELSE {Absent, Declared(T1, FALSE)}

\* The list a parser returns for the manifest m: name -> choice.
RECURSIVE ParsedFrom(_, _)
ParsedFrom(m, i) ==
    IF i > Len(NameOrder) THEN <<>>
    ELSE LET n == NameOrder[i] IN
         IF n \in DOMAIN m /\ m[n].present
         THEN <<formatDependency(n, m[n].ref, m[n].isSha)>> \o ParsedFrom(m, i + 1)
         ELSE ParsedFrom(m, i + 1)

Parsed(m) == ParsedFrom(m, 1)

Names == {NameOrder[i] : i \in DOMAIN NameOrder}

CurManifests == {m \in [Names -> UNION {CurChoices(n) : n \in Names}] :
                    \A n \in Names : m[n] \in CurChoices(n)}

PrevManifests == {m \in [Names -> UNION {PrevChoices(n) : n \in Names}] :
                    \A n \in Names : m[n] \in PrevChoices(n)}

OverrideChoices ==
    {<<>>} \cup {[n \in {N_ab} |-> [Previous |-> v]] : v \in {NoText, T1, T2}}

RenameChoices == {{}, {[short |-> "pkg", Old |-> N_old, New |-> N_pkg]}}

IgnoreChoices == {{}, {N_ab}}

Init ==
    /\ pc = "override"
    /\ \E m \in CurManifests : current = Parsed(m)
    /\ \E m \in PrevManifests : previous = Parsed(m)
    /\ overrideDeps \in OverrideChoices
    /\ renameDeps \in RenameChoices
    /\ ignoreDeps \in IgnoreChoices
    /\ InitResolver
    /\ arg = [previous |-> previous, current |-> current]
    /\ result = Nil
    /\ pm = <<>> /\ cm = <<>> /\ todo = {} /\ updated = <<>>
    /\ name = EmptyStr /\ d = Nil /\ c = Nil
    /\ ret = Nil /\ updatedDeps = <<>>
    /\ remoteFor = {} /\ callLog = NoCall /\ compared = <<>>

Next ==
    \/ Override
    \/ Rename
    \/ Enter
    \/ LoopIgnored
    \/ LoopNew
    \/ LoopOverride
    \/ LoopSame
    \/ LoopChanged
    \/ PrevGitURL
    \/ PrevSha
    \/ CurGitURL
    \/ CurSha
    \/ Compare
    \/ Return
    \/ Sort

Spec == Init /\ [][Next]_vars

\* The runs about a renamed dependency: example.com/old and example.com/pkg
\* in either revision, with or without the rule old -> pkg, pkg ignored or
\* not, with or without a forced previous.
InitRename ==
    /\ pc = "override"
    /\ \E m \in [{N_old} -> {Absent, Declared(T1, FALSE)}] :
       \E k \in [{N_pkg} -> CurChoices(N_pkg)] : current = Parsed(m @@ k)
    /\ \E m \in [{N_old} -> {Absent, Declared(T1, FALSE), Declared(T2, FALSE)}] :
       \E k \in [{N_pkg} -> PrevChoices(N_pkg)] : previous = Parsed(m @@ k)
    /\ overrideDeps \in {<<>>, [n \in {N_pkg} |-> [Previous |-> K1]]}
    /\ renameDeps \in RenameChoices
    /\ ignoreDeps \in {{}, {N_pkg}}
    /\ InitResolver
    /\ arg = [previous |-> previous, current |-> current]
    /\ result = Nil
    /\ pm = <<>> /\ cm = <<>> /\ todo = {} /\ updated = <<>>
    /\ name = EmptyStr /\ d = Nil /\ c = Nil
    /\ ret = Nil /\ updatedDeps = <<>>
    /\ remoteFor = {} /\ callLog = NoCall /\ compared = <<>>

SpecRename == InitRename /\ [][Next]_vars

(***************************************************************************)
(* The parsers of the manifests.  The content of vendor.conf and of        *)
(* vendor/modules.txt is the sequence of its lines, a line the sequence of *)
(* its fields (strings.Fields); the "#" that starts a comment stands as a  *)
(* field of its own.                                                       *)
(***************************************************************************)
CommentMark == <<"#">>

Arrow == <<"=>">>

\* sanitizeLine: the fields before the comment.
sanitizeLine(line, commentDelim) ==
    LET at == {i \in DOMAIN line : line[i] = commentDelim} IN
    IF at = {} THEN line
    ELSE SubSeq(line, 1, (CHOOSE i \in at : \A j \in at : i <= j) - 1)

\* regexp "[0-9a-f]{40}".Match: 40 hexadecimal characters in a row
\* somewhere in the token.
MatchesCommit(tok) ==
    \E i \in 1..(Len(tok) - FullShaLen + 1) :
        \A j \in i..(i + FullShaLen - 1) :
            tok[j] \in {"0", "1", "2", "3", "4", "5", "6", "7", "8", "9",
                        "a", "b", "c", "d", "e", "f"}

\* parseVendorConfDependencies from line i on: [deps, err]
RECURSIVE parseVendorConfDependencies(_, _, _)
parseVendorConfDependencies(lines, i, deps) ==
    IF i > Len(lines) THEN [deps |-> deps, err |-> ""]
    ELSE LET parts == sanitizeLine(lines[i], CommentMark) IN
         IF parts = <<>> THEN parseVendorConfDependencies(lines, i + 1, deps)
         ELSE IF Len(parts) # 2 /\ Len(parts) # 3
         THEN [deps |-> <<>>, err |-> "invalid config format"]
         ELSE LET gitURL  == IF Len(parts) = 3 THEN parts[3]
                             ELSE getGitURL(parts[1])
                  matched == MatchesCommit(parts[2])
                  commitOrVersion == IF matched THEN SubSeq(parts[2], 1, ShaLen)
                                     ELSE parts[2]
                  dep == [Name |-> parts[1], Ref |-> commitOrVersion,
                          Sha |-> IF matched THEN commitOrVersion ELSE NoText,
                          Previous |-> NoText, GitURL |-> gitURL,
                          New |-> FALSE]
              IN  parseVendorConfDependencies(lines, i + 1, Append(deps, dep))

\* The replaced map of a parser: nil for the previous revision.
NoReplaced == [isNil |-> TRUE, map |-> <<>>]

\* if replaced != nil { replaced[old] = new }
Replace(replaced, old, new) ==
    IF replaced.isNil THEN replaced
    ELSE [replaced EXCEPT !.map = Put1(@, old, new)]

\* parseModulesTxtDependencies from line i on: [deps, err, replaced]
RECURSIVE parseModulesTxtDependencies(_, _, _, _)
parseModulesTxtDependencies(lines, i, deps, replaced) ==
    IF i > Len(lines) THEN [deps |-> deps, err |-> "", replaced |-> replaced]
    ELSE LET parts == lines[i]
             n     == Len(parts)
             skip(rep) == parseModulesTxtDependencies(lines, i + 1, deps, rep)
             add(rep, cov) ==
                IF cov.ref = NoText
                THEN [deps |-> <<>>, err |-> "poorly formatted version",
                      replaced |-> rep]
                ELSE parseModulesTxtDependencies(lines, i + 1,
                        Append(deps, formatDependency(parts[2], cov.ref,
                                                      cov.isSha)), rep)
             take(rep, part) == add(rep, getCommitOrVersion(part))
         IN  IF parts = <<>> THEN skip(replaced)
             ELSE IF parts[1] # CommentMark THEN skip(replaced)
             ELSE IF n = 3 THEN take(replaced, parts[3])
             ELSE IF n = 5 /\ parts[3] = Arrow
             THEN skip(Replace(replaced, parts[2], parts[4]))
             ELSE IF n = 6 /\ parts[4] = Arrow
             THEN take(Replace(replaced, parts[2], parts[5]), parts[6])
             ELSE IF n = 4 /\ parts[3] = Arrow
             THEN skip(Replace(replaced, parts[2], parts[4]))
             ELSE IF n = 5 /\ parts[4] = Arrow
             THEN skip(Replace(replaced, parts[2], parts[5]))
             ELSE [deps |-> <<>>, err |-> "unknown format",
                   replaced |-> replaced]

\* The first loop of parseGoModDependencies, over goMod.Require from i on:
\* [depMap, err]
RECURSIVE RequireLoop(_, _, _)
RequireLoop(require, i, depMap) ==
    IF i > Len(require) THEN [depMap |-> depMap, err |-> ""]
    ELSE LET put(cov) ==
                IF cov.ref = NoText
                THEN [depMap |-> <<>>, err |-> "poorly formatted version"]
                ELSE RequireLoop(require, i + 1,
                        Put1(depMap, require[i].Path,
                             formatDependency(require[i].Path, cov.ref,
                                              cov.isSha)))
         IN  put(getCommitOrVersion(require[i].Version))

\* The second loop, over goMod.Replace from i on: [replaceMap, err, replaced]
RECURSIVE ReplaceLoop(_, _, _, _)
ReplaceLoop(replace, i, replaceMap, replaced) ==
    IF i > Len(replace)
    THEN [replaceMap |-> replaceMap, err |-> "", replaced |-> replaced]
    ELSE LET put(new, rep, cov) ==
                IF cov.ref = NoText
                THEN [replaceMap |-> <<>>, err |-> "poorly formatted version",
                      replaced |-> rep]
                ELSE ReplaceLoop(replace, i + 1,
                        Put1(replaceMap, new.Path,
                             formatDependency(new.Path, cov.ref, cov.isSha)),
                        rep)
             step(new, rep) ==
                IF Len(new.Path) >= 2 /\ new.Path[1] = "."
                THEN ReplaceLoop(replace, i + 1, replaceMap, rep)
                ELSE put(new, rep, getCommitOrVersion(new.Version))
         IN  step(replace[i].New,
                  Replace(replaced, replace[i].Old.Path, replace[i].New.Path))

\* parseGoModDependencies on what modfile.ParseLax made of the file,
\* [bad, require, replace]; order is the order in which the last loop
\* iterates depMap: [deps, err, replaced]
parseGoModDependencies(goMod, replaced, order) ==
    LET fail(err, rep) == [deps |-> <<>>, err |-> err, replaced |-> rep]
        collect(depMap, keep, rep) ==
            [deps |-> [j \in 1..Cardinality(keep) |->
                        depMap[order[CHOOSE k \in keep :
                            Cardinality({m \in keep : m < k}) = j - 1]]],
             err |-> "", replaced |-> rep]
        merged(depMap, rep) ==
            collect(depMap, {k \in DOMAIN order : order[k] \in DOMAIN depMap},
                    rep)
        merge(depMap, replaceMap, rep) ==
            merged([n \in DOMAIN depMap |->
                        IF n \in DOMAIN replaceMap
                        THEN [depMap[n] EXCEPT
                                !.Ref = replaceMap[n].Ref,
                                !.Sha = replaceMap[n].Sha,
                                !.GitURL = replaceMap[n].GitURL]
                        ELSE depMap[n]], rep)
        afterReplace(req, rpl) ==
            IF rpl.err # "" THEN fail(rpl.err, rpl.replaced)
            ELSE merge(req.depMap, rpl.replaceMap, rpl.replaced)
        afterRequire(req) ==
            IF req.err # "" THEN fail(req.err, replaced)
            ELSE afterReplace(req, ReplaceLoop(goMod.replace, 1, <<>>, replaced))
    IN  IF goMod.bad THEN fail("parse", replaced)
        ELSE afterRequire(RequireLoop(goMod.require, 1, <<>>))

\* vendorConf, modulesTxt, goMod
ManifestPaths ==
    [vendorConf |-> <<"vendor.conf">>, modulesTxt |-> <<"vendor", "modules.txt">>,
     goMod |-> <<"go.mod">>]

\* An order that looks for go.mod before vendor/modules.txt.
CandidatesGoModFirst(subpath) ==
    LET at(dir, f) == IF dir = EmptyStr THEN ManifestPaths[f]
                      ELSE dir \o ManifestPaths[f]
        pair(dir)  == <<[path |-> at(dir, "goMod"), kind |-> "goMod"],
                        [path |-> at(dir, "modulesTxt"), kind |-> "modulesTxt"]>>
    IN  <<[path |-> ManifestPaths.vendorConf, kind |-> "vendorConf"]>>
        \o (IF subpath # EmptyStr THEN pair(subpath) ELSE <<>>)
        \o pair(EmptyStr)

\* The files parseDependencies looks for, in its order: vendor.conf, then
\* with a subpath the modules.txt and go.mod under it, then those of the
\* root.
Candidates(subpath) ==
    LET at(dir, f) == IF dir = EmptyStr THEN ManifestPaths[f]
                      ELSE dir \o ManifestPaths[f]
        pair(dir)  == <<[path |-> at(dir, "modulesTxt"), kind |-> "modulesTxt"],
                        [path |-> at(dir, "goMod"), kind |-> "goMod"]>>
    IN  <<[path |-> ManifestPaths.vendorConf, kind |-> "vendorConf"]>>
        \o (IF subpath # EmptyStr THEN pair(subpath) ELSE <<>>)
        \o pair(EmptyStr)

\* parseDependencies at a revision whose files are files (fileFromRev fails
\* for a path that is not among them): [deps, err, replaced, kind, path]
parseDependencies(files, subpath, replaced, order) ==
    LET done(first, r) ==
            [deps |-> r.deps, err |-> r.err, replaced |-> r.replaced,
             kind |-> first.kind, path |-> first.path]
        parse(first, rd) ==
            done(first,
                 CASE first.kind = "vendorConf" ->
                        [replaced |-> replaced] @@
                        parseVendorConfDependencies(rd, 1, <<>>)
                   [] first.kind = "modulesTxt" ->
                        parseModulesTxtDependencies(rd, 1, <<>>, replaced)
                   [] OTHER ->
                        parseGoModDependencies(rd, replaced, order))
        open(first) == parse(first, files[first.path])
        look(cands, found) ==
            IF found = {}
            THEN [deps |-> <<>>, err |-> "finding dependency file failed",
                  replaced |-> replaced, kind |-> "", path |-> EmptyStr]
            ELSE open(cands[CHOOSE i \in found : \A j \in found : i <= j])
        among(cands) ==
            look(cands, {i \in DOMAIN cands : cands[i].path \in DOMAIN files})
    IN  among(Candidates(subpath))

(***************************************************************************)
(* The helpers and parsers of the manifests, each called on its own.       *)
(***************************************************************************)
MaxSegs == 3

\* Names on the hosts getGitURL knows and on others, with up to MaxSegs
\* segments after the host, empty segments among them.
GitURLNames ==
    {<<h>> \o t :
        h \in {"github.com", "k8s.io", "sigs.k8s.io", "gopkg.in", "golang.org",
               "example.com", ""},
        t \in SeqsUpTo({"", "a", "v2"}, MaxSegs)}

\* One call of getGitURL(name).
CallGetGitURL ==
    /\ pc = "gitURL"
    /\ result' = getGitURL(arg)
    /\ pc' = "gitURLDone"
    /\ CallFrame

MaxManifestLines == 2

\* Lines of a vendor.conf: refs that are and are not a commit of 40
\* hexadecimal characters, an explicit URL, comments, malformed lines.
VendorConfLines ==
    {<<N_ab, ref>> :
        ref \in {T1, HashA, <<"v">> \o HashA, HashA \o <<"0">>,
                 Take(HashA, FullShaLen - 1), HashShort}}
    \cup {<<N_pkg, T1, U_pkg>>, <<N_pkg, HashB, U_pkg>>,
          <<CommentMark, N_ab, T1>>, <<N_ab, T2, CommentMark, N_pkg>>,
          <<>>, <<N_ab>>, <<N_ab, T1, U_ab, T2>>}

\* Lines of a vendor/modules.txt: modules, replacements of every form,
\* package lines, malformed lines.
ModulesTxtLines ==
    LET pseudo == <<"v", "0", "-", "2", "0", "-">> \o K1
        local  == <<".", "fork">>
    IN  {<<CommentMark, N_ab, T1>>, <<CommentMark, N_ab, pseudo>>,
         <<CommentMark, N_pkg, T2 \o Incompatible>>,
         <<CommentMark, N_ab, T1, Arrow, N_pkg, T2>>,
         <<CommentMark, N_old, T1, Arrow, N_old, pseudo>>,
         <<CommentMark, N_ab, Arrow, N_pkg, T2>>,
         <<CommentMark, N_ab, Arrow, local>>,
         <<CommentMark, N_ab, T1, Arrow, local>>,
         <<N_ab \o <<"pkg">> >>, <<<<"##">>, <<"explicit">> >>, <<>>,
         <<CommentMark, N_ab>>,
         <<CommentMark, N_ab, <<"a", "-", "b", "-", "c", "-", "d">> >>}

\* The files of a revision: any of vendor.conf (well or badly formed),
\* vendor/modules.txt and go.mod, at the root and under sub, each with a
\* dependency of its own.
ManifestFiles ==
    LET gm(n) == [bad |-> FALSE, require |-> <<[Path |-> n, Version |-> T1]>>,
                  replace |-> <<>>]
        all == [p \in {ManifestPaths.vendorConf, ManifestPaths.modulesTxt,
                       ManifestPaths.goMod,
                       <<"sub">> \o ManifestPaths.modulesTxt,
                       <<"sub">> \o ManifestPaths.goMod} |->
                  CASE p = ManifestPaths.vendorConf -> <<<<N_ab, T1>>>>
                    [] p = ManifestPaths.modulesTxt -> <<<<CommentMark, N_ab, T2>>>>
                    [] p = ManifestPaths.goMod -> gm(N_ab)
                    [] p = <<"sub">> \o ManifestPaths.modulesTxt ->
                            <<<<CommentMark, N_pkg, T2>>>>
                    [] OTHER -> gm(N_pkg)]
        pick(S) == [p \in S |-> all[p]]
    IN  {pick(S) : S \in SUBSET DOMAIN all}
        \cup {[pick(S) EXCEPT ![ManifestPaths.vendorConf] = <<<<N_ab>>>>] :
                S \in {T \in SUBSET DOMAIN all : ManifestPaths.vendorConf \in T}}

\* One call of parseVendorConfDependencies(r).
CallParseVendorConf ==
    /\ pc = "vendorConf"
    /\ result' = parseVendorConfDependencies(arg, 1, <<>>)
    /\ pc' = "vendorConfDone"
    /\ CallFrame

\* One call of parseModulesTxtDependencies(r, replaced).
CallParseModulesTxt ==
    /\ pc = "modulesTxt"
    /\ result' = parseModulesTxtDependencies(arg.lines, 1, <<>>, arg.replaced)
    /\ pc' = "modulesTxtDone"
    /\ CallFrame

\* One call of parseDependencies(commit, subpath, replaced).
CallParseDependencies ==
    /\ pc = "parse"
    /\ \E order \in {<<N_ab, N_pkg>>, <<N_pkg, N_ab>>} :
        result' = parseDependencies(arg.files, arg.subpath, arg.replaced, order)
    /\ pc' = "parseDone"
    /\ CallFrame

MaxDirectives == 2

\* What modfile.ParseLax makes of a go.mod: up to MaxDirectives require
\* directives and as many replace directives, towards a directory (./fork,
\* ../fork; no version), towards another module, towards another version of
\* the same module, of a required module and of one that is not required,
\* with a version of too many fields.
GoMods ==
    LET pseudo == <<"v", "0", "-", "2", "0", "-">> \o K1
        req(n, v) == [Path |-> n, Version |-> v]
        rpl(old, n, v) == [Old |-> [Path |-> old],
                           New |-> [Path |-> n, Version |-> v]]
        requires == {req(N_ab, T1), req(N_pkg, T2), req(N_ab, pseudo)}
        replaces ==
            {rpl(N_ab, <<".", "fork">>, NoText),
             rpl(N_ab, <<"..", "fork">>, NoText),
             rpl(N_ab, N_pkg, T2), rpl(N_ab, N_ab, T2), rpl(N_ab, N_ab, pseudo),
             rpl(N_old, N_pkg, T1), rpl(N_old, N_old, T2),
             rpl(N_old, <<".", "fork">>, NoText),
             rpl(N_old, N_old, T1 \o <<"-", "a", "-", "b", "-", "c">>)}
    IN  [bad : {FALSE}, require : SeqsUpTo(requires, MaxDirectives),
         replace : SeqsUpTo(replaces, MaxDirectives)]
        \cup {[bad |-> TRUE, require |-> <<>>, replace |-> <<>>]}

\* One call of parseGoModDependencies(r, replaced); arg.order is the order
\* in which the run iterates depMap.
CallParseGoMod ==
    /\ pc = "goMod"
    /\ result' = parseGoModDependencies(arg.goMod, arg.replaced, arg.order)
    /\ pc' = "goModDone"
    /\ CallFrame

\* The arguments of each function.
CallArgs ==
    [version |-> Tokens, gitURL |-> GitURLNames,
     vendorConf |-> SeqsUpTo(VendorConfLines, MaxManifestLines),
     modulesTxt |-> [lines : SeqsUpTo(ModulesTxtLines, MaxManifestLines),
                     replaced : {NoReplaced, [isNil |-> FALSE, map |-> <<>>]}],
     parse |-> [files : ManifestFiles, subpath : {EmptyStr, <<"sub">>},
                replaced : {NoReplaced, [isNil |-> FALSE, map |-> <<>>]}],
     goMod |-> [goMod : GoMods, order : {<<N_ab, N_pkg>>, <<N_pkg, N_ab>>},
                replaced : {NoReplaced, [isNil |-> FALSE, map |-> <<>>]}]]

InitCall ==
    /\ IdleRun /\ IdleResolver
    /\ \E fn \in DOMAIN CallArgs : pc = fn /\ arg \in CallArgs[fn]
    /\ result = Nil

NextCall ==
    \/ CallGetCommitOrVersion
    \/ CallGetGitURL
    \/ CallParseVendorConf
    \/ CallParseModulesTxt
    \/ CallParseDependencies
    \/ CallParseGoMod

SpecCall == InitCall /\ [][NextCall]_vars

(***************************************************************************)
(* The runs about pseudo-versions, from the manifests on.                  *)
(***************************************************************************)
\* Pseudo-versions: a base (placeholder version and timestamp, in the forms
\* vX.0.0-time and vX.Y.Z-0.time), the commit, +incompatible or not.
PseudoVersions ==
    [base : {<<"v", "0", "-", "2", "0">>,
             <<"v", "1", ".", "0", "-", "0", ".", "2", "1">>},
     commit : {K1, Take(HashB, ShaLen)}, incompatible : BOOLEAN]

PseudoToken(pv) ==
    pv.base \o <<"-">> \o pv.commit
        \o (IF pv.incompatible THEN Incompatible ELSE <<>>)

\* What the parser of a vendor/modules.txt or of a go.mod returns for a
\* manifest that declares the modules of mods ([Path, Version]), in this
\* order.
ParsedManifest(kind, mods, order) ==
    IF kind = "modulesTxt"
    THEN parseModulesTxtDependencies(
            [i \in DOMAIN mods |-> <<CommentMark, mods[i].Path, mods[i].Version>>],
            1, <<>>, NoReplaced).deps
    ELSE parseGoModDependencies(
            [bad |-> FALSE, require |-> mods, replace |-> <<>>],
            NoReplaced, order).deps

\* github.com/a/b at a pseudo-version in both revisions, example.com/pkg at
\* a tag or absent, each manifest a vendor/modules.txt or a go.mod;
\* github.com/a/b ignored or not, with or without a forced previous.
InitPseudo ==
    /\ pc = "override"
    /\ \E pv \in [prev : PseudoVersions, cur : PseudoVersions] :
       \E kinds \in [prev : {"modulesTxt", "goMod"}, cur : {"modulesTxt", "goMod"}] :
       \E pkg \in [prev : {<<>>, <<[Path |-> N_pkg, Version |-> T1]>>},
                   cur : {<<>>, <<[Path |-> N_pkg, Version |-> T2]>>}] :
        /\ previous = ParsedManifest(kinds.prev,
                pkg.prev \o <<[Path |-> N_ab, Version |-> PseudoToken(pv.prev)]>>,
                <<N_ab, N_pkg>>)
        /\ current = ParsedManifest(kinds.cur,
                <<[Path |-> N_ab, Version |-> PseudoToken(pv.cur)]>> \o pkg.cur,
                <<N_ab, N_pkg>>)
        /\ arg = [previous |-> previous, current |-> current, pseudo |-> pv]
    /\ overrideDeps \in {<<>>, [n \in {N_ab} |-> [Previous |-> K1]]}
    /\ renameDeps = {}
    /\ ignoreDeps \in IgnoreChoices
    /\ InitResolver
    /\ result = Nil
    /\ pm = <<>> /\ cm = <<>> /\ todo = {} /\ updated = <<>>
    /\ name = EmptyStr /\ d = Nil /\ c = Nil
    /\ ret = Nil /\ updatedDeps = <<>>
    /\ remoteFor = {} /\ callLog = NoCall /\ compared = <<>>

SpecPseudo == InitPseudo /\ [][Next]_vars

(***************************************************************************)
(* The cache, the GitHub lookups and the contributors, each exercised on   *)
(* its own by a sequence of calls.                                         *)
(***************************************************************************)
CacheKeys == {ShaKey(U_ab, T1), GoGetKey(N_pkg)}

CacheValues == {K1, U_pkg}

\* One call of Cache.Put(key, value).  arg keeps, per key, the last Put made
\* for it.
CallCachePut ==
    /\ pc = "cache"
    /\ \E key \in CacheKeys, value \in CacheValues, po \in PutOutcomes :
        /\ cacheFiles' = CachePut(cacheKind, cacheFiles, key, value, po)
        /\ arg' = Put1(arg, key, [value |-> value, outcome |-> po])
        /\ result' = [op |-> "Put", key |-> key, b |-> value, ok |-> FALSE,
                      err |-> IF cacheKind = "dir" /\ po # "ok"
                              THEN "write" ELSE ""]
    /\ UNCHANGED <<pc, cacheKind, HTTPVars, ShaVars, RunVars>>

\* One call of Cache.Get(key).
CallCacheGet ==
    /\ pc = "cache"
    /\ \E key \in CacheKeys :
        LET got == CacheGet(cacheKind, cacheFiles, key) IN
        result' = [op |-> "Get", key |-> key, b |-> got.b, ok |-> got.ok,
                   err |-> ""]
    /\ UNCHANGED <<pc, arg, cacheKind, cacheFiles, HTTPVars, ShaVars, RunVars>>

\* json.Marshal of an info and json.Unmarshal of cached or received bytes:
\* [info, err]; the bytes are a JSON text of an info or (as an empty file
\* is) no JSON text at all.
Marshal(info) == <<"json", info>>

Unmarshal(b) ==
    IF Len(b) = 2 /\ b[1] = "json" THEN [info |-> b[2], err |-> ""]
    ELSE [info |-> Nil, err |-> "unexpected end of JSON input"]

\* The cache keys of the two lookups.
InfoKey(fn, repo, id) ==
    IF fn = "getPRInfo"
    THEN <<"https://api.github.com/repos/", repo, "/pulls/", id, " title labels">>
    ELSE <<"https://api.github.com/repos/", repo, "/security-advisories/", id,
           " cve link summary description severity">>

PRInfo(title) == [Title |-> title, Labels |-> <<>>, Body |-> ""]

AdvisoryInfo(summary) ==
    [CVE |-> "", Link |-> "", Summary |-> summary, Description |-> "",
     Severity |-> ""]

\* What the GitHub API may answer: no answer, a refusal, a body that is not
\* JSON, an info (for a pull request also one without title).
InfoResponses(fn) ==
    {[err |-> TRUE, status |-> 0, body |-> <<>>],
     [err |-> FALSE, status |-> 403, body |-> <<>>],
     [err |-> FALSE, status |-> 404, body |-> Marshal(PRInfo("Not Found"))],
     [err |-> FALSE, status |-> 200, body |-> <<>>]}
    \cup {[err |-> FALSE, status |-> 200, body |-> Marshal(i)] :
            i \in IF fn = "getPRInfo"
                  THEN {PRInfo(""), PRInfo("Fix"), PRInfo("Add")}
                  ELSE {AdvisoryInfo(""), AdvisoryInfo("Leak")}}

\* A lookup that answers from the cache alone.
getPRInfoNoRequest(refreshCache, kind, files, key, resp, putOutcome) ==
    [info |-> CacheGet(kind, files, key).b, err |-> "", files |-> files,
     hit |-> TRUE, requested |-> FALSE]

\* getPRInfo: [info, err, files, hit, requested]
getPRInfo(refreshCache, kind, files, key, resp, putOutcome) ==
    LET fail(err) == [info |-> Nil, err |-> err, files |-> files,
                      hit |-> FALSE, requested |-> TRUE]
        decoded(dec) ==
            IF dec.err # "" THEN fail(dec.err)
            ELSE IF dec.info.Title = "" THEN fail("unexpected empty title")
            ELSE [info |-> dec.info, err |-> "",
                  files |-> CachePut(kind, files, key, Marshal(dec.info),
                                     putOutcome),
                  hit |-> FALSE, requested |-> TRUE]
        request ==
            IF resp.err THEN fail("transport error")
            ELSE IF resp.status >= 400 THEN fail("unexpected status code")
            ELSE decoded(Unmarshal(resp.body))
        cached(got) ==
            IF got.ok /\ Unmarshal(got.b).err = ""
            THEN [info |-> Unmarshal(got.b).info, err |-> "", files |-> files,
                  hit |-> TRUE, requested |-> FALSE]
            ELSE request
    IN  IF ~refreshCache THEN cached(CacheGet(kind, files, key)) ELSE request

\* getAdvisoryInfo: [info, err, files, hit, requested]
getAdvisoryInfo(refreshCache, kind, files, key, resp, putOutcome) ==
    LET fail(err) == [info |-> Nil, err |-> err, files |-> files,
                      hit |-> FALSE, requested |-> TRUE]
        decoded(dec) ==
            IF dec.err # "" THEN fail(dec.err)
            ELSE [info |-> dec.info, err |-> "",
                  files |-> CachePut(kind, files, key, Marshal(dec.info),
                                     putOutcome),
                  hit |-> FALSE, requested |-> TRUE]
        request ==
            IF resp.err THEN fail("transport error")
            ELSE IF resp.status >= 400 THEN fail("unexpected status code")
            ELSE decoded(Unmarshal(resp.body))
        cached(got) ==
            IF got.ok /\ Unmarshal(got.b).err = ""
            THEN [info |-> Unmarshal(got.b).info, err |-> "", files |-> files,
                  hit |-> TRUE, requested |-> FALSE]
            ELSE request
    IN  IF ~refreshCache THEN cached(CacheGet(kind, files, key)) ELSE request

\* One call of getPRInfo(repo, prn) or of getAdvisoryInfo(repo, advisory) by
\* a processor whose refreshCache is arg.refreshCache.
CallGetInfo ==
    /\ pc = "info"
    /\ \E fn \in {"getPRInfo", "getAdvisoryInfo"}, po \in PutOutcomes :
       \E resp \in InfoResponses(fn) :
        LET key == InfoKey(fn, "a/b", IF fn = "getPRInfo" THEN "1" ELSE "GHSA-x")
            r == IF fn = "getPRInfo"
                 THEN getPRInfo(arg.refreshCache, cacheKind, cacheFiles, key,
                                resp, po)
                 ELSE getAdvisoryInfo(arg.refreshCache, cacheKind, cacheFiles,
                                      key, resp, po)
        IN  /\ cacheFiles' = r.files
            /\ result' = [fn |-> fn, key |-> key, resp |-> resp, po |-> po,
                          before |-> cacheFiles, info |-> r.info,
                          err |-> r.err, hit |-> r.hit,
                          requested |-> r.requested]
    /\ UNCHANGED <<pc, arg, cacheKind, HTTPVars, ShaVars, RunVars>>

\* strings.SplitN(text, " ", 2)
SplitN2(text) ==
    LET at(sp) ==
            IF sp = {} THEN <<text>>
            ELSE <<SubSeq(text, 1, (CHOOSE i \in sp : \A j \in sp : i <= j) - 1),
                   SubSeq(text, (CHOOSE i \in sp : \A j \in sp : i <= j) + 1,
                          Len(text))>>
    IN  at({i \in DOMAIN text : text[i] = " "})

BotName == <<"b", "o", "t">>

BotTag == <<"[", "b", "o", "t", "]">>

\* name == "bot" || strings.Contains(name, "[bot]")
IsBot(n) == n = BotName \/ Index(n, BotTag) >= 0

\* A contributor entry that keeps the name of the call at hand.
addContributorLast(contributors, n, email) ==
    Put1(contributors, email,
         [Name |-> n, Email |-> email, Commits |-> 1, OtherNames |-> <<>>])

\* addContributor: the map after the call
addContributor(contributors, n, email) ==
    LET bump(e) ==
            [e EXCEPT !.Commits = @ + 1,
                      !.OtherNames =
                          IF e.Name # n /\ \A i \in DOMAIN @ : @[i] # n
                          THEN Append(@, n) ELSE @]
    IN  IF email \in DOMAIN contributors
        THEN Put1(contributors, email, bump(contributors[email]))
        ELSE Put1(contributors, email,
                  [Name |-> n, Email |-> email, Commits |-> 1,
                   OtherNames |-> <<>>])

\* The loop of addContributors over the lines of the git log from line i
\* on: [contributors, made, err], made the calls of addContributor made.
RECURSIVE ScanLog(_, _, _, _)
ScanLog(lines, i, contributors, made) ==
    LET step(p) ==
            IF Len(p) # 2
            THEN [contributors |-> contributors, made |-> made,
                  err |-> "unparsable git log output"]
            ELSE IF IsBot(p[2])
            THEN ScanLog(lines, i + 1, contributors, made)
            ELSE ScanLog(lines, i + 1, addContributor(contributors, p[2], p[1]),
                         Append(made, [name |-> p[2], email |-> p[1]]))
    IN  IF i > Len(lines)
        THEN [contributors |-> contributors, made |-> made, err |-> ""]
        ELSE step(SplitN2(lines[i]))

\* addContributors, gitOut what `git log --format="%aE %aN"` gave
addContributors(gitOut, contributors) ==
    IF gitOut.err
    THEN [contributors |-> contributors, made |-> <<>>, err |-> "git log failed"]
    ELSE ScanLog(gitOut.lines, 1, contributors, <<>>)

MaxCommits == 3

ContributorNames == {<<"A", "l">>, <<"B", "o">>, BotName}

ContributorEmails == {<<"a">>, <<"b">>}

\* Lines of the git log: an author, an author named bot, an app, an author
\* named bot whose email has a space in it, a line with an email alone.
LogLines ==
    {<<"a", " ", "A", "l">>,
     <<"a", " ">> \o BotName,
     <<"b", " ", "x">> \o BotTag,
     <<"a", " ", "b", " ">> \o BotName,
     <<"b">>}

GitLogs(n) ==
    {[err |-> TRUE, lines |-> <<>>]}
    \cup {[err |-> FALSE, lines |-> l] : l \in SeqsUpTo(LogLines, n)}

\* One call of addContributor on the map in result; arg.calls lists the
\* calls of addContributor made so far.
CallAddContributor ==
    /\ pc = "contrib"
    /\ Len(arg.calls) < MaxCommits
    /\ \E n \in ContributorNames, email \in ContributorEmails :
        /\ result' = addContributor(result, n, email)
        /\ arg' = [calls |-> Append(arg.calls, [name |-> n, email |-> email]),
                   by |-> "addContributor",
                   gitOut |-> [err |-> FALSE, lines |-> <<>>],
                   made |-> 1, err |-> ""]
    /\ UNCHANGED <<pc, cacheKind, cacheFiles, HTTPVars, ShaVars, RunVars>>

\* One call of addContributors on the map in result.
CallAddContributors ==
    /\ pc = "contrib"
    /\ Len(arg.calls) < MaxCommits
    /\ \E gitOut \in GitLogs(MaxCommits - Len(arg.calls)) :
        LET took(r) ==
                /\ result' = r.contributors
                /\ arg' = [calls |-> arg.calls \o r.made,
                           by |-> "addContributors", gitOut |-> gitOut,
                           made |-> Len(r.made), err |-> r.err]
        IN  took(addContributors(gitOut, result))
    /\ UNCHANGED <<pc, cacheKind, cacheFiles, HTTPVars, ShaVars, RunVars>>

\* The contributors start from an empty map; the cache directory of the
\* lookups is empty or holds, from an earlier run, a file of a write that
\* failed half-way.
InitUnit ==
    /\ IdleRun
    /\ cacheKind \in CacheKinds
    /\ gitRemote = <<>> /\ httpRemote = <<>> /\ urlLog = NoURLLog
    /\ shaLog = NoLog /\ shaDone = <<>> /\ shaCalls = <<>>
    /\ \/ /\ pc = "contrib" /\ cacheKind = "nil" /\ cacheFiles = <<>>
          /\ result = <<>>
          /\ arg = [calls |-> <<>>, by |-> "", made |-> 0, err |-> "",
                    gitOut |-> [err |-> FALSE, lines |-> <<>>]]
       \/ pc = "cache" /\ result = Nil /\ arg = <<>> /\ cacheFiles = <<>>
       \/ /\ pc = "info" /\ result = Nil
          /\ arg \in [refreshCache : BOOLEAN]
          /\ cacheFiles \in
                {<<>>} \cup
                (IF cacheKind = "dir"
                 THEN {[k \in {InfoKey(fn, "a/b",
                                   IF fn = "getPRInfo" THEN "1" ELSE "GHSA-x")}
                            |-> <<>>] : fn \in {"getPRInfo", "getAdvisoryInfo"}}
                 ELSE {})

NextUnit ==
    \/ CallCachePut
    \/ CallCacheGet
    \/ CallGetInfo
    \/ CallAddContributor
    \/ CallAddContributors

SpecUnit == InitUnit /\ [][NextUnit]_vars

(***************************************************************************)
(* Properties.                                                             *)
(***************************************************************************)
InList(deps, n) == \E i \in DOMAIN deps : deps[i].Name = n

RecordOf(deps, n) == deps[CHOOSE i \in DOMAIN deps : deps[i].Name = n]

\* getUpdatedDeps returned its list without an error.
Returned == pc \in {"sort", "done"}

\* The lists the run holds: the one being built, the one returned, the one
\* handed to rendering.
Lists == {updated, updatedDeps} \cup (IF ret = Nil THEN {} ELSE {ret.deps})

Forced(n) == n \in DOMAIN overrideDeps /\ overrideDeps[n].Previous # NoText

\* C1: a dependency whose name is in the ignore list is in no list that
\* getUpdatedDeps builds or returns, whatever its refs and overrides are.
C1_IgnoredNeverIncluded ==
    \A n \in ignoreDeps : \A l \in Lists : ~InList(l, n)

\* An ignored dependency with a changed ref and a forced previous that
\* differs from its ref went through a whole run.
C1_Witness ==
    /\ pc = "done"
    /\ \E n \in ignoreDeps \cap DOMAIN cm \cap DOMAIN pm :
        /\ pm[n].Ref # cm[n].Ref
        /\ cm[n].Previous # NoText /\ cm[n].Previous # cm[n].Ref
        /\ ~InList(updatedDeps, n)

\* C2 as stated: every name of the current set that the previous set lacks
\* is in the returned list, marked new, and no resolution call was made
\* for it.
C2_Original ==
    Returned =>
        \A n \in DOMAIN cm \ DOMAIN pm :
            /\ InList(ret.deps, n) /\ RecordOf(ret.deps, n).New
            /\ n \notin remoteFor

\* C2, amended: every name of the current set that the (renamed) previous
\* set lacks and that is not ignored is in the list getUpdatedDeps returns,
\* marked new; an ignored one is not in it; no resolution call is made for
\* either.
C2_NewIncluded ==
    /\ \A n \in DOMAIN cm \ DOMAIN pm : n \notin remoteFor
    /\ Returned =>
        \A n \in DOMAIN cm \ DOMAIN pm :
            IF n \in ignoreDeps
            THEN ~InList(ret.deps, n)
            ELSE InList(ret.deps, n) /\ RecordOf(ret.deps, n).New

\* A new dependency is reported as new in a run that made remote calls for
\* another dependency.
C2_Witness ==
    /\ pc = "done"
    /\ remoteFor # {}
    /\ \E n \in DOMAIN cm \ DOMAIN pm :
        /\ n \notin ignoreDeps
        /\ InList(updatedDeps, n) /\ RecordOf(updatedDeps, n).New

\* C3 as stated: a dependency with the same declared ref on both sides is
\* not in the returned list and no resolution call was made for it.
C3_Original ==
    Returned =>
        \A n \in DOMAIN cm \cap DOMAIN pm :
            pm[n].Ref = cm[n].Ref =>
                ~InList(ret.deps, n) /\ n \notin remoteFor

\* C3, amended: for a dependency with the same declared ref on both sides
\* no resolution call is ever made, and it is in the returned list exactly
\* when it is not ignored and a forced previous differs from its ref.
C3_UnchangedExcluded ==
    \A n \in DOMAIN cm \cap DOMAIN pm :
        pm[n].Ref = cm[n].Ref =>
            /\ n \notin remoteFor
            /\ Returned =>
                (InList(ret.deps, n) <=>
                    /\ n \notin ignoreDeps
                    /\ cm[n].Previous # NoText
                    /\ cm[n].Previous # cm[n].Ref)

\* An unchanged dependency without override is left out of a run that made
\* remote calls for another one.
C3_Witness ==
    /\ pc = "done"
    /\ remoteFor # {}
    /\ \E n \in DOMAIN cm \cap DOMAIN pm :
        /\ pm[n].Ref = cm[n].Ref
        /\ cm[n].Previous = NoText
        /\ n \notin ignoreDeps
        /\ ~InList(updatedDeps, n)

\* C4 as stated: a dependency of the current set with a forced previous is
\* in the returned list exactly when the forced previous differs from its
\* ref, whatever the previous set holds for it.
C4_Original ==
    Returned =>
        \A n \in DOMAIN cm :
            Forced(n) =>
                (InList(ret.deps, n) <=> overrideDeps[n].Previous # cm[n].Ref)

\* C4, amended: a dependency of the current set with a forced previous that
\* is not ignored and is in the previous set is in the returned list exactly
\* when the forced previous differs from its ref, whatever ref the previous
\* set has, with the forced previous as Previous and without resolution
\* call; when the previous set lacks it, it is included as new; when it is
\* ignored, it is left out.
C4_OverrideDecides ==
    \A n \in DOMAIN cm :
        Forced(n) =>
            /\ n \in DOMAIN pm => n \notin remoteFor
            /\ Returned =>
                IF n \in ignoreDeps THEN ~InList(ret.deps, n)
                ELSE IF n \notin DOMAIN pm
                THEN InList(ret.deps, n) /\ RecordOf(ret.deps, n).New
                ELSE /\ InList(ret.deps, n) <=>
                            overrideDeps[n].Previous # cm[n].Ref
                     /\ InList(ret.deps, n) =>
                            /\ RecordOf(ret.deps, n).Previous =
                                    overrideDeps[n].Previous
                            /\ ~RecordOf(ret.deps, n).New

\* A dependency whose two manifests declare the same ref is reported
\* because the forced previous differs.
C4_Witness ==
    /\ pc = "done"
    /\ \E n \in DOMAIN cm \cap DOMAIN pm :
        /\ Forced(n)
        /\ pm[n].Ref = cm[n].Ref
        /\ overrideDeps[n].Previous # cm[n].Ref
        /\ InList(updatedDeps, n)

\* The dependencies of both sets with differing declared refs and no
\* forced previous.
ChangedRefs ==
    {n \in DOMAIN cm \cap DOMAIN pm :
        pm[n].Ref # cm[n].Ref /\ cm[n].Previous = NoText}

\* C5 as stated: for a dependency of both sets with differing refs and no
\* override, the two commits are compared and it is in the returned list
\* exactly when they differ, with Previous the previous declared ref and
\* New false.
C5_Original ==
    Returned =>
        \A n \in ChangedRefs :
            /\ n \in DOMAIN compared
            /\ InList(ret.deps, n) <=> compared[n].prev # compared[n].cur
            /\ InList(ret.deps, n) =>
                /\ RecordOf(ret.deps, n).Previous = pm[n].Ref
                /\ ~RecordOf(ret.deps, n).New

\* C5, amended: the same for a dependency that is not ignored; a commit a
\* manifest already gives (a pseudo-version) is compared as it is; an
\* ignored dependency is neither resolved nor returned.
C5_CommitsDecide ==
    Returned =>
        \A n \in ChangedRefs :
            IF n \in ignoreDeps
            THEN n \notin DOMAIN compared /\ ~InList(ret.deps, n)
            ELSE /\ n \in DOMAIN compared
                 /\ pm[n].Sha # NoText => compared[n].prev = pm[n].Sha
                 /\ cm[n].Sha # NoText => compared[n].cur = cm[n].Sha
                 /\ InList(ret.deps, n) <=>
                        compared[n].prev # compared[n].cur
                 /\ InList(ret.deps, n) =>
                        /\ RecordOf(ret.deps, n).Previous = pm[n].Ref
                        /\ RecordOf(ret.deps, n).Ref = cm[n].Ref
                        /\ ~RecordOf(ret.deps, n).New

\* example.com/pkg v1.0.0 -> v1.1.0, both resolved by remote listings to
\* distinct commits: one record, with Previous = v1.0.0.
C5_Witness ==
    /\ pc = "done"
    /\ N_pkg \in DOMAIN pm /\ N_pkg \in DOMAIN cm
    /\ pm[N_pkg].Ref = T1 /\ cm[N_pkg].Ref = T2
    /\ N_pkg \in DOMAIN compared
    /\ compared[N_pkg].prev = Take(HashA, ShaLen)
    /\ compared[N_pkg].cur = Take(HashB, ShaLen)
    /\ Len(updatedDeps) = 1
    /\ updatedDeps[1].Name = N_pkg
    /\ updatedDeps[1].Previous = T1
    /\ ~updatedDeps[1].New

NoCommit == shaLog.tried # <<>> /\ shaLog.sha = NoText

C8_RecordShape ==
    \A l \in Lists : \A i \in DOMAIN l :
        \/ l[i].New
        \/ l[i].Previous # NoText /\ l[i].Previous # l[i].Ref

\* The returned list has a record from the override path and one from the
\* comparison of commits.
C8_Witness ==
    /\ pc = "done"
    /\ \E i, j \in DOMAIN updatedDeps :
        /\ ~updatedDeps[i].New /\ Forced(updatedDeps[i].Name)
        /\ ~updatedDeps[j].New /\ updatedDeps[j].Name \in DOMAIN compared

DerefLines(lines) ==
    {i \in DOMAIN lines : Len(lines[i]) = 2 /\ lines[i][2].suffix = "^{}"}

PlainLines(lines) ==
    {i \in DOMAIN lines : Len(lines[i]) = 2 /\ lines[i][2].suffix # "^{}"}

\* C10: from a listing, getSha returns the hash of a dereferenced-tag line
\* when there is one, wherever it stands, and the hash of a plain line only
\* when there is none, cut to at most 12 characters.
C10_DerefPreferred ==
    shaLog.listed =>
        LET D == DerefLines(shaLog.lines)
            P == PlainLines(shaLog.lines)
        IN  /\ D # {} =>
                /\ shaLog.err = ""
                /\ \E i \in D : shaLog.sha = Take(shaLog.lines[i][1], ShaLen)
            /\ (D = {} /\ P # {}) =>
                /\ shaLog.err = ""
                /\ \E i \in P : shaLog.sha = Take(shaLog.lines[i][1], ShaLen)
            /\ Len(shaLog.sha) <= ShaLen
            /\ shaLog.err = "" =>
                \E i \in D \cup P :
                    /\ Len(shaLog.lines[i][1]) >= ShaLen => Len(shaLog.sha) = ShaLen
                    /\ shaLog.sha = Take(shaLog.lines[i][1], ShaLen)

\* A listing with the dereferenced line first and a plain line after it:
\* the dereferenced hash is returned, cut to 12 characters.
C10_Witness ==
    /\ shaLog.listed
    /\ Len(shaLog.lines) >= 2
    /\ shaLog.lines[1] = LineDeref(HashB)
    /\ shaLog.lines[2] = LinePlain(HashA)
    /\ shaLog.sha = Take(HashB, ShaLen)
    /\ Len(shaLog.sha) < Len(HashB)

\* The "/"-separated segments of a URL as nextGitURLTry counts them: a
\* leading https:// is not counted.
Segments(url) ==
    IF Len(url) >= 3 /\ url[1] = "https:" /\ url[2] = ""
    THEN Len(url) - 2 ELSE Len(url)

LsFailed(url) == gitRemote[<<url, arg.rev>>].err

\* The URLs lsRemote queried form the chain from the original URL, each the
\* one before without its last segment, no URL twice, every one but the
\* last a failure, and the call ends with the output of the first success
\* or with nil.
LsChain ==
    LET t == result.tried IN
    /\ arg.gitURL = EmptyStr => t = <<>>
    /\ arg.gitURL # EmptyStr => Len(t) >= 1 /\ t[1] = arg.gitURL
    /\ Len(t) <= Len(arg.gitURL)
    /\ \A i \in 1..(Len(t) - 1) :
           t[i + 1] = SubSeq(t[i], 1, Len(t[i]) - 1) /\ LsFailed(t[i])
    /\ \A i, j \in DOMAIN t : i # j => t[i] # t[j]
    /\ IF result.isNil
       THEN \A i \in DOMAIN t : LsFailed(t[i])
       ELSE /\ t # <<>> /\ ~LsFailed(t[Len(t)])
            /\ result.b = gitRemote[<<t[Len(t)], arg.rev>>].out

\* C11 as stated: the chain of queried URLs is as above and no listing call
\* is issued for a URL with fewer than 3 segments.
C11_Original ==
    pc = "lsDone" =>
        /\ LsChain
        /\ \A i \in DOMAIN result.tried : Segments(result.tried[i]) >= 3

\* C11, amended: lsRemote terminates after at most as many listing calls as
\* the URL has segments; it queries the original URL whatever its length,
\* then the URL with its last segment stripped, each URL once; it strips
\* only a URL that has 3 segments or more, so a URL with 2 segments is
\* queried too, and it gives up after the failure of a URL with fewer than
\* 3 segments; a success at any step returns that step's output at once.
C11_LsRemote ==
    pc = "lsDone" =>
        LET t == result.tried IN
        /\ LsChain
        /\ \A i \in 1..(Len(t) - 1) : Segments(t[i]) >= 3
        /\ (result.isNil /\ t # <<>>) => Segments(t[Len(t)]) < 3
        /\ (result.isNil /\ arg.gitURL # EmptyStr) =>
                Len(t) = IF Segments(arg.gitURL) >= 3
                         THEN Segments(arg.gitURL) - 1 ELSE 1

\* Every listing call for https://github.com/a/b/v2 failed: three URLs were
\* queried, the last one https://github.com/a, and lsRemote returned nil.
C11_Witness ==
    /\ pc = "lsDone"
    /\ arg.gitURL = U_sub
    /\ result.isNil
    /\ result.tried = <<U_sub, U_ab, <<"https:", "", "github.com", "a">> >>

\* The go-import tags of a response that declare a git repository.
GitImports(resp) ==
    {i \in DOMAIN resp.metas :
        /\ resp.metas[i].name = "go-import"
        /\ Len(resp.metas[i].content) = 3
        /\ resp.metas[i].content[2] = "git"}

\* C12: resolveGitURL answers from the cache, without request, when the
\* discovery URL is cached; on a miss it makes the request, fails and
\* leaves the cache as it was when the request fails, the status is 400 or
\* more, or no go-import tag declares git, and otherwise returns the URL of
\* the first such tag; the only cache write it ever makes is that returned
\* URL under the discovery URL.
C12_ResolveGitURL ==
    urlLog.calls > 0 =>
        LET key  == GoGetKey(urlLog.name)
            old  == urlLog.before
            resp == httpRemote[urlLog.name]
        IN  IF cacheKind = "dir" /\ key \in DOMAIN old
            THEN /\ ~urlLog.requested
                 /\ urlLog.err = "" /\ urlLog.url = old[key]
                 /\ cacheFiles = old
            ELSE /\ urlLog.requested
                 /\ IF resp.err \/ resp.status >= 400 \/ GitImports(resp) = {}
                    THEN /\ urlLog.err # "" /\ urlLog.url = EmptyStr
                         /\ cacheFiles = old
                    ELSE LET first == CHOOSE i \in GitImports(resp) :
                                        \A j \in GitImports(resp) : i <= j
                         IN  /\ urlLog.err = ""
                             /\ urlLog.url = resp.metas[first].content[3]
                             /\ \/ cacheFiles = old
                                \/ cacheFiles = Put1(old, key, urlLog.url)

\* A discovery succeeded and was stored, and a later call for the same name
\* is answered from the cache with the stored URL.
C12_Witness ==
    /\ urlLog.calls >= 2
    /\ ~urlLog.requested
    /\ urlLog.url = U_pkg
    /\ GoGetKey(urlLog.name) \in DOMAIN urlLog.before

\* C13: getUpdatedDeps never calls getSha with an empty URL; when the record
\* it resolves came from the parser without a GitURL, a resolveGitURL call
\* for that name succeeded before and getSha is given the URL it returned;
\* otherwise getSha is given the record's own GitURL.
C13_URLBeforeSha ==
    callLog.fn = "getSha" =>
        LET n   == callLog.dep
            rec == IF callLog.side = "prev" THEN pm[n] ELSE cm[n]
        IN
        /\ shaLog.gitURL # EmptyStr
        /\ rec.Sha = NoText
        /\ IF rec.GitURL = EmptyStr
           THEN /\ urlLog.calls > 0
                /\ urlLog.name = n /\ urlLog.err = ""
                /\ shaLog.gitURL = urlLog.url
                /\ n \in DOMAIN httpRemote \/ urlLog.hit
           ELSE shaLog.gitURL = rec.GitURL

\* The previous manifest gives the commit of example.com/pkg, the current
\* one a tag and no URL: the URL was discovered, then getSha was called
\* with it for the current side.
C13_Witness ==
    /\ callLog.fn = "getSha" /\ callLog.side = "cur"
    /\ pm[callLog.dep].Sha # NoText
    /\ cm[callLog.dep].GitURL = EmptyStr
    /\ urlLog.requested /\ urlLog.name = callLog.dep
    /\ shaLog.gitURL = U_pkg

\* The segments of a token: its non-empty pieces between dashes, each
\* given by the positions where it starts and ends.
SegStarts(tok) ==
    {i \in DOMAIN tok : tok[i] # "-" /\ (i = 1 \/ tok[i - 1] = "-")}

SegEnds(tok) ==
    {i \in DOMAIN tok : tok[i] # "-" /\ (i = Len(tok) \/ tok[i + 1] = "-")}

NumSegments(tok) == Cardinality(SegStarts(tok))

\* The k-th segment of a token that has k segments or more.
Segment(tok, k) ==
    LET a == CHOOSE i \in SegStarts(tok) :
                Cardinality({j \in SegStarts(tok) : j <= i}) = k
        b == CHOOSE i \in SegEnds(tok) :
                Cardinality({j \in SegEnds(tok) : j <= i}) = k
    IN  SubSeq(tok, a, b)

HasMarkerAt(s, i) ==
    /\ i + Len(Incompatible) - 1 <= Len(s)
    /\ SubSeq(s, i, i + Len(Incompatible) - 1) = Incompatible

HasMarker(s) == \E i \in DOMAIN s : HasMarkerAt(s, i)

\* s with the first +incompatible marker and everything after it removed.
WithoutMarker(s) ==
    IF HasMarker(s)
    THEN LET i == CHOOSE k \in DOMAIN s :
                    HasMarkerAt(s, k) /\ \A j \in 1..(k - 1) : ~HasMarkerAt(s, j)
         IN  SubSeq(s, 1, i - 1)
    ELSE s

\* C14: for every token with more than 3 dash-separated segments (the
\* non-empty pieces between dashes) getCommitOrVersion returns the empty
\* string and false.
C14_TooManySegments ==
    (pc = "versionDone" /\ NumSegments(arg) > 3) =>
        result = [ref |-> NoText, isSha |-> FALSE]

\* A token of 4 segments, the +incompatible marker in one of them, was
\* given up.
C14_Witness ==
    /\ pc = "versionDone"
    /\ NumSegments(arg) = 4
    /\ HasMarker(arg)
    /\ result.ref = NoText /\ ~result.isSha

\* C15: for every token with exactly 3 dash-separated segments
\* getCommitOrVersion returns isSha = true and the third segment as the
\* ref, with the +incompatible marker and everything after it stripped
\* when the segment contains the marker.
C15_Original ==
    (pc = "versionDone" /\ NumSegments(arg) = 3) =>
        /\ result.isSha
        /\ result.ref = WithoutMarker(Segment(arg, 3))

\* C16: for every token with 1 or 2 dash-separated segments
\* getCommitOrVersion returns isSha = false and the token with any
\* +incompatible marker and everything after it removed, the token itself
\* when it has no marker.
C16_Original ==
    (pc = "versionDone" /\ NumSegments(arg) \in {1, 2}) =>
        /\ ~result.isSha
        /\ result.ref = WithoutMarker(arg)
        /\ ~HasMarker(arg) => result.ref = arg

\* C17: getGitURL gives https://github.com/<org>/<repo> for a name
\* github.com/<org>/<repo>[/...], https://github.com/kubernetes/<repo> for
\* k8s.io/<repo>[/...] and https://github.com/kubernetes-sigs/<repo> for
\* sigs.k8s.io/<repo>[/...], whatever segments follow; it gives "" for
\* github.com with a single segment after it and for every other host.
C17_GetGitURL ==
    pc = "gitURLDone" =>
        LET n    == arg
            host == n[1]
            gh   == <<"https:", "", "github.com">>
        IN  /\ (host = "github.com" /\ Len(n) >= 3 /\ n[2] # "" /\ n[3] # "")
                    => result = gh \o <<n[2], n[3]>>
            /\ (host = "k8s.io" /\ Len(n) >= 2 /\ n[2] # "")
                    => result = gh \o <<"kubernetes", n[2]>>
            /\ (host = "sigs.k8s.io" /\ Len(n) >= 2 /\ n[2] # "")
                    => result = gh \o <<"kubernetes-sigs", n[2]>>
            /\ (host = "github.com" /\ Len(n) <= 2) => result = EmptyStr
            /\ host \notin {"github.com", "k8s.io", "sigs.k8s.io"}
                    => result = EmptyStr

\* k8s.io/a/v2/a gives https://github.com/kubernetes/a.
C17_Witness ==
    /\ pc = "gitURLDone"
    /\ arg = <<"k8s.io", "a", "v2", "a">>
    /\ result = <<"https:", "", "github.com", "kubernetes", "a">>

\* The kinds of manifest in the order vendor.conf, vendor/modules.txt,
\* go.mod, and the paths at which a call looks for a kind.
KindOrder == <<"vendorConf", "modulesTxt", "goMod">>

KindPaths(kind, subpath) ==
    {ManifestPaths[kind]} \cup
    (IF subpath # EmptyStr /\ kind # "vendorConf"
     THEN {subpath \o ManifestPaths[kind]} ELSE {})

KindExists(kind) == KindPaths(kind, arg.subpath) \cap DOMAIN arg.files # {}

\* C18 as stated: the first kind, in the order vendor.conf, modules.txt,
\* go.mod, that has a file at the revision is the one parsed, and the call
\* fails with the no-manifest error when no kind has one.
C18_Original ==
    pc = "parseDone" =>
        LET have == {i \in DOMAIN KindOrder : KindExists(KindOrder[i])} IN
        IF have = {}
        THEN result.err = "finding dependency file failed"
        ELSE result.kind = KindOrder[CHOOSE i \in have : \A j \in have : i <= j]

\* C18, amended: parseDependencies parses the first file that exists among
\* vendor.conf, then (only with a subpath) vendor/modules.txt and go.mod
\* under the subpath, then vendor/modules.txt and go.mod of the root, with
\* the parser of its kind and without falling back when that parser fails;
\* it fails with the no-manifest error when none exists.  Without subpath
\* this is the order of the kinds; with one, the go.mod under the subpath
\* comes before the vendor/modules.txt of the root.
C18_ManifestOrder ==
    pc = "parseDone" =>
        LET sub    == arg.subpath
            P      == ManifestPaths
            looked == IF sub = EmptyStr
                      THEN <<P.vendorConf, P.modulesTxt, P.goMod>>
                      ELSE <<P.vendorConf, sub \o P.modulesTxt, sub \o P.goMod,
                             P.modulesTxt, P.goMod>>
            have   == {i \in DOMAIN looked : looked[i] \in DOMAIN arg.files}
        IN  IF have = {}
            THEN /\ result.err = "finding dependency file failed"
                 /\ result.deps = <<>>
            ELSE LET path == looked[CHOOSE i \in have : \A j \in have : i <= j]
                 IN  /\ result.path = path
                     /\ path \in KindPaths(result.kind, sub)
                     /\ result.err # "finding dependency file failed"
                     /\ sub = EmptyStr => C18_Original
                     /\ IF path = P.vendorConf /\ arg.files[path] = <<<<N_ab>>>>
                        THEN result.err = "invalid config format"
                        ELSE /\ result.err = "" /\ Len(result.deps) = 1
                             /\ result.deps[1].Name =
                                    (IF Len(path) > 1 /\ path[1] = "sub"
                                     THEN N_pkg ELSE N_ab)

\* With the subpath sub, a revision has sub/go.mod and vendor/modules.txt:
\* the go.mod under the subpath is parsed.
C18_Witness ==
    /\ pc = "parseDone"
    /\ arg.subpath = <<"sub">>
    /\ DOMAIN arg.files =
            {<<"sub">> \o ManifestPaths.goMod, ManifestPaths.modulesTxt}
    /\ result.kind = "goMod"
    /\ result.deps[1].Name = N_pkg

\* The lines of a vendor.conf that declare a dependency.
ConfDeclared(lines) ==
    SelectSeq(lines, LAMBDA l : sanitizeLine(l, CommentMark) # <<>>)

\* C19: the legacy flat config parser records a ref token that is a commit
\* of 40 hexadecimal characters cut to its first 12 characters, as Ref and
\* as Sha, and every other ref token as it is, with an empty Sha.
C19_Original ==
    (pc = "vendorConfDone" /\ result.err = "") =>
        LET decl == ConfDeclared(arg) IN
        /\ Len(result.deps) = Len(decl)
        /\ \A i \in DOMAIN decl :
            LET tok == decl[i][2] IN
            IF Len(tok) = FullShaLen /\ MatchesCommit(tok)
            THEN /\ result.deps[i].Ref = SubSeq(tok, 1, ShaLen)
                 /\ result.deps[i].Sha = SubSeq(tok, 1, ShaLen)
            ELSE /\ result.deps[i].Ref = tok
                 /\ result.deps[i].Sha = NoText

\* The lines of a vendor/modules.txt that declare a dependency: "# name
\* version" and "# name version => name2 version2".
TxtDeclared(lines) ==
    SelectSeq(lines, LAMBDA l :
        /\ l # <<>> /\ l[1] = CommentMark
        /\ Len(l) = 3 \/ (Len(l) = 6 /\ l[4] = Arrow))

\* C20: the lock manifest parser records, for a redirect line, name2 with
\* the normalized version2, and for a plain line the name with the
\* normalized version.
C20_Original ==
    (pc = "modulesTxtDone" /\ result.err = "") =>
        LET decl == TxtDeclared(arg.lines) IN
        /\ Len(result.deps) = Len(decl)
        /\ \A i \in DOMAIN decl :
            IF Len(decl[i]) = 6
            THEN /\ result.deps[i].Name = decl[i][5]
                 /\ result.deps[i].Ref = getCommitOrVersion(decl[i][6]).ref
            ELSE /\ result.deps[i].Name = decl[i][2]
                 /\ result.deps[i].Ref = getCommitOrVersion(decl[i][3]).ref

(***************************************************************************)
(* The go.mod parser.                                                      *)
(***************************************************************************)
\* A replacement towards a directory: ./dir or ../dir.
IsLocalPath(path) == path[1] \in {".", ".."}

RemoveAt(seq, i) == SubSeq(seq, 1, i - 1) \o SubSeq(seq, i + 1, Len(seq))

\* The call of the go.mod parser on the same file without directive i of
\* its replace section.
WithoutReplace(i) ==
    parseGoModDependencies(
        [arg.goMod EXCEPT !.replace = RemoveAt(@, i)], arg.replaced, arg.order)

GoModDone == pc = "goModDone" /\ ~arg.goMod.bad

RequiredPaths == {arg.goMod.require[k].Path : k \in DOMAIN arg.goMod.require}

C22_Original ==
    (GoModDone /\ result.err = "") =>
        \A i \in DOMAIN arg.goMod.replace :
            LET old == arg.goMod.replace[i].Old.Path
                new == arg.goMod.replace[i].New
                to  == formatDependency(new.Path,
                            getCommitOrVersion(new.Version).ref,
                            getCommitOrVersion(new.Version).isSha)
            IN  (/\ ~IsLocalPath(new.Path)
                 /\ old \in RequiredPaths
                 /\ \A j \in DOMAIN arg.goMod.replace :
                        j > i => arg.goMod.replace[j].Old.Path # old)
                => \E k \in DOMAIN result.deps :
                        /\ result.deps[k].Name = old
                        /\ result.deps[k].Ref = to.Ref
                        /\ result.deps[k].Sha = to.Sha
                        /\ result.deps[k].GitURL = to.GitURL

NamesOf(deps) == [i \in DOMAIN deps |-> deps[i].Name]

\* The rules old -> new whose case is at hand: the previous manifest has
\* old, the current one has new with another ref, and nothing in the run
\* shows that the two refs are the same commit.
RenamedApart ==
    {r \in renameDeps :
        /\ InList(arg.previous, r.Old) /\ InList(arg.current, r.New)
        /\ RecordOf(arg.previous, r.Old).Ref # RecordOf(arg.current, r.New).Ref
        /\ r.New \in DOMAIN compared =>
                compared[r.New].prev # compared[r.New].cur}

\* C24 as stated: with a rule old -> new, old in the previous set at r1 and
\* new in the current set at another commit, the list handed to rendering
\* has exactly one record for new, with Previous = r1 and New false, and none
\* for old; the names of the current set are never rewritten.
C24_Original ==
    /\ NamesOf(current) = NamesOf(arg.current)
    /\ pc = "done" =>
        \A r \in RenamedApart :
            /\ \E i \in DOMAIN updatedDeps :
                /\ updatedDeps[i].Name = r.New
                /\ updatedDeps[i].Previous = RecordOf(arg.previous, r.Old).Ref
                /\ ~updatedDeps[i].New
                /\ \A j \in DOMAIN updatedDeps :
                        updatedDeps[j].Name = r.New => j = i
            /\ ~InList(updatedDeps, r.Old)

\* C24, amended: the same when the previous set does not have new under its
\* own name too, and new is neither ignored nor given a forced previous;
\* old has a record, marked new, exactly when the current set has old as
\* well and old is not ignored.
C24_Rename ==
    /\ NamesOf(current) = NamesOf(arg.current)
    /\ pc = "done" =>
        \A r \in RenamedApart :
            (/\ ~InList(arg.previous, r.New)
             /\ r.New \notin ignoreDeps /\ ~Forced(r.New)) =>
            /\ \E i \in DOMAIN updatedDeps :
                /\ updatedDeps[i].Name = r.New
                /\ updatedDeps[i].Previous = RecordOf(arg.previous, r.Old).Ref
                /\ ~updatedDeps[i].New
                /\ \A j \in DOMAIN updatedDeps :
                        updatedDeps[j].Name = r.New => j = i
            /\ InList(updatedDeps, r.Old) <=>
                    InList(arg.current, r.Old) /\ r.Old \notin ignoreDeps
            /\ InList(updatedDeps, r.Old) => RecordOf(updatedDeps, r.Old).New

\* example.com/old v1.0.0 renamed to example.com/pkg v1.1.0: one record,
\* for example.com/pkg, with Previous = v1.0.0.
C24_Witness ==
    /\ pc = "done"
    /\ renameDeps # {}
    /\ NamesOf(arg.previous) = <<N_old>> /\ arg.previous[1].Ref = T1
    /\ NamesOf(arg.current) = <<N_pkg>> /\ arg.current[1].Ref = T2
    /\ NamesOf(previous) = <<N_pkg>>
    /\ Len(updatedDeps) = 1
    /\ updatedDeps[1].Name = N_pkg
    /\ updatedDeps[1].Previous = T1
    /\ ~updatedDeps[1].New

(***************************************************************************)
(* The list handed to rendering as a function of the two sets, the rules   *)
(* and the remote.                                                         *)
(***************************************************************************)
\* What the remote answered to git ls-remote for rev, per URL.
AnswersGiven(rev) ==
    [u \in {q[1] : q \in {k \in DOMAIN gitRemote : k[2] = rev}} |->
        gitRemote[<<u, rev>>]]

\* The commit of rev at gitURL and the URL of n, from the answers of the
\* remote alone.
ShaGiven(gitURL, rev) ==
    getSha(gitURL, rev, "nil", <<>>, AnswersGiven(rev), "ok").sha

URLGiven(n) == resolveGitURL(n, "nil", <<>>, httpRemote[n], "ok").url

\* The two sides of n once resolved: [prev, cur].
Resolved(n) ==
    LET d0 == pm[n]
        c0 == cm[n]
        dURL == IF d0.Sha = NoText /\ d0.GitURL = EmptyStr
                THEN URLGiven(n) ELSE d0.GitURL
        cFromD == IF d0.Sha = NoText /\ d0.GitURL = EmptyStr
                     /\ c0.GitURL = EmptyStr
                  THEN dURL ELSE c0.GitURL
        dSha == IF d0.Sha = NoText THEN ShaGiven(dURL, d0.Ref) ELSE d0.Sha
        cURL == IF c0.Sha = NoText /\ cFromD = EmptyStr
                THEN URLGiven(n) ELSE cFromD
        cSha == IF c0.Sha = NoText THEN ShaGiven(cURL, c0.Ref) ELSE c0.Sha
    IN  [prev |-> [d0 EXCEPT !.GitURL = dURL, !.Sha = dSha],
         cur  |-> [c0 EXCEPT !.GitURL = cURL, !.Sha = cSha]]

\* The record of n in the result, <<>> when n is left out.
Outcome(n) ==
    IF n \in ignoreDeps THEN <<>>
    ELSE IF n \notin DOMAIN pm THEN <<[cm[n] EXCEPT !.New = TRUE]>>
    ELSE IF cm[n].Previous # NoText
    THEN (IF cm[n].Previous # cm[n].Ref THEN <<cm[n]>> ELSE <<>>)
    ELSE IF pm[n].Ref = cm[n].Ref THEN <<>>
    ELSE IF Resolved(n).prev.Sha = Resolved(n).cur.Sha THEN <<>>
    ELSE <<[Resolved(n).cur EXCEPT !.Previous = pm[n].Ref]>>

\* The outcomes of the names of the current set, in the order of the names.
RECURSIVE OutcomesFrom(_)
OutcomesFrom(i) ==
    IF i > Len(NameOrder) THEN <<>>
    ELSE (IF NameOrder[i] \in DOMAIN cm THEN Outcome(NameOrder[i]) ELSE <<>>)
         \o OutcomesFrom(i + 1)

\* C25: the list handed to rendering is in ascending order of names and is
\* the list that the two sets, the rules and the answers of the remote
\* determine, in whatever order the loop went through the current set.
C25_OrderIndependent ==
    pc = "done" =>
        /\ \A i, j \in DOMAIN updatedDeps :
                i < j => NameRank(updatedDeps[i].Name)
                            < NameRank(updatedDeps[j].Name)
        /\ updatedDeps = OutcomesFrom(1)

\* Two dependencies were reported, and the loop came to them against the
\* order of their names.
C25_Witness ==
    /\ pc = "done"
    /\ Len(updatedDeps) = 2
    /\ ret.deps # updatedDeps
    /\ remoteFor # {}

(***************************************************************************)
(* Pseudo-versions.                                                        *)
(***************************************************************************)
\* C26 as stated: a dependency at two pseudo-versions of the same commit
\* has the same ref on both sides and is left out of the result; at two
\* pseudo-versions of different commits it is in the result; no remote call
\* is made for it in either case.
C26_Original ==
    N_ab \notin remoteFor
    /\ pc = "done" =>
        IF arg.pseudo.prev.commit = arg.pseudo.cur.commit
        THEN pm[N_ab].Ref = cm[N_ab].Ref /\ ~InList(updatedDeps, N_ab)
        ELSE InList(updatedDeps, N_ab)

\* C26, amended: the refs of the two sides are the commits of the
\* pseudo-versions; without ignore entry and forced previous the dependency
\* is in the result exactly when the commits differ, with Previous the
\* previous commit; ignored it is left out, and with a forced previous it is
\* in the result exactly when the forced previous differs from the current
\* commit; no remote call is made for it in any case.
C26_PseudoVersions ==
    N_ab \notin remoteFor
    /\ pc = "done" =>
        /\ pm[N_ab].Ref = arg.pseudo.prev.commit
        /\ pm[N_ab].Sha = arg.pseudo.prev.commit
        /\ cm[N_ab].Ref = arg.pseudo.cur.commit
        /\ cm[N_ab].Sha = arg.pseudo.cur.commit
        /\ InList(updatedDeps, N_ab) <=>
                /\ N_ab \notin ignoreDeps
                /\ IF Forced(N_ab)
                   THEN overrideDeps[N_ab].Previous # arg.pseudo.cur.commit
                   ELSE arg.pseudo.prev.commit # arg.pseudo.cur.commit
        /\ (InList(updatedDeps, N_ab) /\ ~Forced(N_ab)) =>
                /\ RecordOf(updatedDeps, N_ab).Previous = arg.pseudo.prev.commit
                /\ RecordOf(updatedDeps, N_ab).Ref = arg.pseudo.cur.commit
                /\ ~RecordOf(updatedDeps, N_ab).New

\* The same commit under two pseudo-versions that differ in placeholder
\* version, timestamp and +incompatible: left out, in a run that made remote
\* calls for another dependency.
C26_Witness ==
    /\ pc = "done"
    /\ arg.pseudo.prev.commit = arg.pseudo.cur.commit
    /\ arg.pseudo.prev.base # arg.pseudo.cur.base
    /\ arg.pseudo.prev.incompatible # arg.pseudo.cur.incompatible
    /\ ignoreDeps = {} /\ overrideDeps = <<>>
    /\ remoteFor = {N_pkg}
    /\ ~InList(updatedDeps, N_ab)

(***************************************************************************)
(* The result set of getUpdatedDeps.                                       *)
(***************************************************************************)
\* The names of the list are keys of the current set, none of them ignored,
\* none of them twice.
WellFormed(l) ==
    /\ \A i \in DOMAIN l :
        /\ l[i].Name \in {current[k].Name : k \in DOMAIN current}
        /\ l[i].Name \notin ignoreDeps
        /\ l[i].Name \notin DOMAIN pm \ DOMAIN cm
    /\ \A i, j \in DOMAIN l : l[i].Name = l[j].Name => i = j

\* C29: every record of the list getUpdatedDeps builds and returns has a name
\* that is a key of the current set and is not ignored, no name is in it
\* twice, a dependency that only the previous set has is not in it; and
\* getUpdatedDeps changes neither of the two sets it is given.
C29_ResultSet ==
    /\ [](\A l \in Lists : WellFormed(l))
    /\ [][pc \notin {"override", "rename"} =>
            previous' = previous /\ current' = current]_vars

\* A run over a current set with an ignored dependency and a previous set
\* with a removed one returned a record.
C29_Witness ==
    /\ pc = "done"
    /\ ignoreDeps \cap DOMAIN cm # {}
    /\ DOMAIN pm \ DOMAIN cm # {}
    /\ updatedDeps # <<>>
    /\ remoteFor # {}

(***************************************************************************)
(* cache.go                                                                *)
(***************************************************************************)
\* C27: the no-op cache misses on every Get and its Put never fails; the
\* directory cache answers a Get for a key whose last Put succeeded with
\* the bytes of that Put, and misses for a key no Put was made for.
C27_Cache ==
    /\ (pc = "cache" /\ result # Nil /\ result.op = "Put" /\ cacheKind = "nil")
            => result.err = ""
    /\ (pc = "cache" /\ result # Nil /\ result.op = "Get") =>
         IF cacheKind = "nil" THEN ~result.ok /\ result.b = Nil
         ELSE /\ (result.key \in DOMAIN arg /\ arg[result.key].outcome = "ok")
                    => result.ok /\ result.b = arg[result.key].value
              /\ result.key \notin DOMAIN arg => ~result.ok /\ result.b = Nil

\* The directory cache answered a Get with the bytes of the last Put for
\* the key, after a Put for the other key that failed and left an empty
\* file.
C27_Witness ==
    /\ pc = "cache" /\ cacheKind = "dir"
    /\ result # Nil /\ result.op = "Get" /\ result.ok
    /\ result.key = GoGetKey(N_pkg) /\ result.b = U_pkg
    /\ DOMAIN arg = CacheKeys
    /\ arg[ShaKey(U_ab, T1)].outcome = "short"
    /\ cacheFiles[ShaKey(U_ab, T1)] = <<>>

(***************************************************************************)
(* github.go                                                               *)
(***************************************************************************)
\* A call of getPRInfo or getAdvisoryInfo has returned.
InfoDone == pc = "info" /\ result # Nil

\* The call left every cache file but that of its key as it was.
OthersKept ==
    \A k \in (DOMAIN cacheFiles \cup DOMAIN result.before) \ {result.key} :
        /\ k \in DOMAIN cacheFiles /\ k \in DOMAIN result.before
        /\ cacheFiles[k] = result.before[k]

\* C28: getPRInfo and getAdvisoryInfo answer from the cache only when
\* refreshCache is false; with refreshCache true they always issue the
\* request and on success put the info they return under the key (with the
\* directory cache the file then holds it); on a status >= 400, and for
\* getPRInfo on an empty title, they return an error and leave the cache as
\* it was; a cached entry that cannot be decoded is treated as a miss.
C28_RefreshCache ==
    InfoDone =>
        /\ result.hit => ~arg.refreshCache /\ ~result.requested
        /\ arg.refreshCache => result.requested
        /\ (arg.refreshCache /\ result.err = "") =>
              /\ OthersKept
              /\ (cacheKind = "dir" /\ result.po = "ok") =>
                    /\ result.key \in DOMAIN cacheFiles
                    /\ cacheFiles[result.key] = Marshal(result.info)
        /\ (result.requested /\ ~result.resp.err /\ result.resp.status >= 400)
              => result.err # "" /\ cacheFiles = result.before
        /\ (result.requested /\ ~result.resp.err /\ result.fn = "getPRInfo"
            /\ result.resp.status < 400
            /\ Unmarshal(result.resp.body).err = ""
            /\ Unmarshal(result.resp.body).info.Title = "")
              => result.err # "" /\ cacheFiles = result.before
        /\ (~arg.refreshCache /\ result.key \in DOMAIN result.before
            /\ Unmarshal(result.before[result.key]).err # "")
              => ~result.hit /\ result.requested
        /\ (~arg.refreshCache /\ result.key \in DOMAIN result.before
            /\ Unmarshal(result.before[result.key]).err = "")
              => /\ result.hit /\ result.err = ""
                 /\ result.info = Unmarshal(result.before[result.key]).info
                 /\ cacheFiles = result.before

\* With refreshCache true getPRInfo found an info of the pull request in the
\* directory cache, requested it all the same and replaced the cached one
\* by the one received.
C28_Witness ==
    /\ InfoDone /\ arg.refreshCache /\ cacheKind = "dir"
    /\ result.fn = "getPRInfo" /\ result.requested /\ result.err = ""
    /\ result.key \in DOMAIN result.before
    /\ result.before[result.key] = Marshal(PRInfo("Fix"))
    /\ result.info = PRInfo("Add")
    /\ cacheFiles[result.key] = Marshal(PRInfo("Add"))

\* Without refreshCache a cached file that is no JSON text was passed over
\* and the request made.
C28_WitnessMiss ==
    /\ InfoDone /\ ~arg.refreshCache /\ cacheKind = "dir"
    /\ result.key \in DOMAIN result.before
    /\ result.before[result.key] = <<>>
    /\ result.requested /\ result.err = ""

(***************************************************************************)
(* The contributors                                                        *)
(***************************************************************************)
\* The calls of addContributor made with the email, in order.
CallsWith(email) == {i \in DOMAIN arg.calls : arg.calls[i].email = email}

FirstWith(email) ==
    CHOOSE i \in CallsWith(email) : \A j \in CallsWith(email) : i <= j

NamesWith(email) == {arg.calls[i].name : i \in CallsWith(email)}

NamedBot(n) ==
    \/ n = <<"b", "o", "t">>
    \/ \E i \in 1..(Len(n) - 4) :
          SubSeq(n, i, i + 4) = <<"[", "b", "o", "t", "]">>

\* What a git log makes addContributors call: up to the first line
\* without a space, the part before the first space of a line as email
\* and the part after it as name, unless that name is a bot's.
Expected(lines) ==
    LET spaceless == {i \in DOMAIN lines : Index(lines[i], <<" ">>) < 0}
        stop == IF spaceless = {} THEN Len(lines) + 1
                ELSE CHOOSE i \in spaceless : \A j \in spaceless : i <= j
        email(l) == SubSeq(l, 1, Index(l, <<" ">>))
        nm(l) == SubSeq(l, Index(l, <<" ">>) + 2, Len(l))
        upTo[i \in 0..(stop - 1)] ==
            IF i = 0 THEN <<>>
            ELSE IF NamedBot(nm(lines[i])) THEN upTo[i - 1]
            ELSE Append(upTo[i - 1],
                        [name |-> nm(lines[i]), email |-> email(lines[i])])
    IN  [made |-> upTo[stop - 1], failed |-> stop <= Len(lines)]

\* The calls of addContributor the last call of addContributors made.
LastMade ==
    SubSeq(arg.calls, Len(arg.calls) - arg.made + 1, Len(arg.calls))

\* C30: after any sequence of addContributor calls from the empty map the
\* map has one entry per email of a call; the entry counts the calls with
\* the email, is named as the first of them, and lists once each the other
\* names of those calls, never its own.  addContributors calls
\* addContributor for the lines of the git log in order and for none whose
\* name is 'bot' or contains '[bot]'.
C30_Contributors ==
    pc = "contrib" =>
        /\ DOMAIN result = {arg.calls[i].email : i \in DOMAIN arg.calls}
        /\ \A e \in DOMAIN result :
              /\ result[e].Email = e
              /\ result[e].Commits = Cardinality(CallsWith(e))
              /\ result[e].Name = arg.calls[FirstWith(e)].name
              /\ {result[e].OtherNames[i] : i \in DOMAIN result[e].OtherNames}
                    = NamesWith(e) \ {result[e].Name}
              /\ Len(result[e].OtherNames)
                    = Cardinality(NamesWith(e) \ {result[e].Name})
        /\ arg.by = "addContributors" =>
              /\ \A i \in DOMAIN LastMade : ~NamedBot(LastMade[i].name)
              /\ ~arg.gitOut.err =>
                    /\ LastMade = Expected(arg.gitOut.lines).made
                    /\ (arg.err # "") = Expected(arg.gitOut.lines).failed
              /\ arg.gitOut.err => arg.made = 0 /\ arg.err # ""

\* After a call of addContributor for one email, addContributors read a
\* log with a bot's commit and a commit under another name for that email:
\* the entry counts two commits, keeps the first name and lists the other.
C30_Witness ==
    /\ pc = "contrib" /\ arg.by = "addContributors"
    /\ arg.gitOut.lines = << <<"a", " ", "b", "o", "t">>,
                             <<"a", " ", "A", "l">> >>
    /\ Len(arg.calls) = 2 /\ arg.made = 1
    /\ result[<<"a">>].Name = <<"B", "o">>
    /\ result[<<"a">>].Commits = 2
    /\ result[<<"a">>].OtherNames = << <<"A", "l">> >>
====
